---- MODULE Spec2Model ----
(***************************************************************************)
(* EnergyToken (contracts/token/EnergyToken.sol, kept in                   *)
(* src/truffle-config.js lines 72-261): an ERC-1155 incentive ledger whose *)
(* balances decay per whole elapsed day.  The ledger operations modelled   *)
(* are awardTokens, setDecayRate, setURI, the reads getEffectiveBalance,   *)
(* balanceOf and getOperatorData, and the passage of block time.           *)
(* Solidity ^0.8.19 arithmetic is checked: an overflowing product or sum   *)
(* reverts the whole call.  The 256-bit word is scaled to WordBits bits.   *)
(* Operators are non-zero externally owned accounts.  Spec explores the    *)
(* transactions under every caller and input; SpecReads interleaves the    *)
(* view functions with the owner's transactions.  The inherited ERC-1155   *)
(* transfer functions are not part of either; SpecTransfer adds            *)
(* safeTransferFrom, SpecDecay starts from a funded account and follows    *)
(* its decay, SpecLoop follows one getEffectiveBalance call through its    *)
(* loop.                                                                   *)
(*                                                                         *)
(* The module also holds the two contracts of                              *)
(* src/contracts/energy/EnergyLog.sol and the frontend's wallet context:   *)
(* EnergyLog (SpecLog: createEnergyLog, verifyEnergyLog and the views),    *)
(* WorkloadOracle (SpecOracle: the Chainlink request and callback, the     *)
(* redistribution check and the two thresholds) and Web3Provider of        *)
(* src/frontend/src/contexts/Web3Context.js (SpecWallet: connectWallet     *)
(* at each of its awaits, disconnectWallet and the wallet's events).       *)
(* Each component has its own variables; the specifications share the      *)
(* initial state and every action leaves the other components alone.       *)
(***************************************************************************)
EXTENDS Integers, Sequences, FiniteSets, TLC

(* ------------------------------ bounds -------------------------------- *)

\* width of the unsigned machine word of the model (uint256 in the EVM)
WordBits == 27

\* the largest block timestamp explored is StartTime + MaxHalfDays half days
MaxHalfDays == 4

\* number of state-changing transactions (successful or reverted) explored
MaxTx == 2

\* block timestamp of the deployment transaction
StartTime == 1

\* number of EnergyLog transactions (successful or reverted) explored
MaxLogTx == 3

\* number of WorkloadOracle transactions (successful or reverted) explored
MaxOracleTx == 4

\* the longest period, in whole days, followed through getEffectiveBalance's
\* loop one iteration at a time
MaxLoopDays == 10001

\* number of successful connectWallet calls followed (each registers one more
\* accountsChanged handler with the wallet)
MaxListeners == 3

(* -------------------------- program constants -------------------------- *)

EFFICIENCY_TOKEN == 0

COMPLIANCE_TOKEN == 1

INNOVATION_TOKEN == 2

\* Solidity's `1 days`
ONE_DAY == 86400

\* basis points denominator (10000 = 100%)
BASIS_POINTS == 10000

\* a default of 99% retention instead of 99.9%
DEFAULT_DECAY_RATE_percent == BASIS_POINTS - 100

\* decay rate given to a profile created by a first award
DEFAULT_DECAY_RATE == 9990

MaxUint == 2^WordBits - 1

(* ------------------------------ inputs --------------------------------- *)

\* msg.sender of the constructor; Ownable makes it the owner
Owner == "owner"

Callers == {Owner, "stranger"}

Operators == {"op1", "op2"}

TokenIds == EFFICIENCY_TOKEN .. INNOVATION_TOKEN

\* token ids a caller may pass: the three valid ones and an invalid one
TokenIdInputs == TokenIds \cup {INNOVATION_TOKEN + 2}

\* amounts a caller may pass: zero, the test-suite amount, and one so large
\* that the test-suite amount is all the word has room for on top of it
AmountInputs == {0, 1000, MaxUint - 1000}

\* rates a caller may pass: full decay, 90%, no decay, just above the limit
RateInputs == {0, 9000, BASIS_POINTS, BASIS_POINTS + 1}

URIs == {"uriA", "uriB"}

\* the amount and the rate the test suite's decay scenario uses
SuiteAmounts == {1000}

SuiteRates == {9000}

TimeSteps == {ONE_DAY \div 2, ONE_DAY}

MaxTime == StartTime + MaxHalfDays * (ONE_DAY \div 2)

(* ------------------------------ outcomes ------------------------------- *)

OK == "ok"

NotOwner == "Ownable: caller is not the owner"

InvalidTokenId == "Invalid token ID"

InvalidAmount == "Amount must be positive"

InvalidRate == "Decay rate cannot exceed 100%"

\* ERC1155.safeTransferFrom's own failures
NotTokenOwner == "ERC1155: caller is not token owner or approved"

InsufficientBalance == "ERC1155: insufficient balance for transfer"

\* Panic(0x11): checked arithmetic overflowed or underflowed
Panic == "Panic(0x11)"

\* the value a reverting view function yields: none
NoValue == -1

(* ------------------------------- state --------------------------------- *)

VARIABLES
    now,            \* block.timestamp
    balances,       \* ERC1155 _balances: [Operators -> [TokenIds -> Nat]]
    operatorData,   \* [Operators -> [lastUpdate, decayRate]]
    baseURI,        \* _baseURI
    txCount,        \* number of state-changing transactions sent so far
    call,           \* the last call: [op, caller, operator, tokenId, amount, at]
    status,         \* its outcome: OK or the revert reason
    ret,            \* its return values (a sequence; empty when none)
    logs            \* the events it emitted (empty when it reverted)

\* EnergyLog (src/contracts/energy/EnergyLog.sol lines 12-176)
VARIABLES
    energyLogs,     \* mapping logId -> EnergyData, on the ids written so far
    energyLogIds,   \* bytes32[]: the log ids in creation order
    latestNodeLogs  \* mapping nodeId -> logId, on the node ids written so far

\* WorkloadOracle (src/contracts/energy/EnergyLog.sol lines 190-399)
VARIABLES
    nodeWorkloads,            \* mapping nodeId -> WorkloadData, on the ids written
    nodeIds,                  \* bytes32[]: the node ids in order of first report
    redistributionThreshold,
    slaVarianceThreshold,
    pendingRequests           \* ChainlinkClient: request ids awaiting fulfilment

\* Web3Provider (src/frontend/src/contexts/Web3Context.js): the React state,
\* the position of a running connectWallet and the wallet's listener list
VARIABLES
    web3, provider, account, networkId, isConnected, error,
    connecting,     \* "idle", or where connectWallet is suspended at an await
    listeners       \* number of handleAccountsChanged handlers registered

\* one run of getEffectiveBalance's loop, an iteration per step
VARIABLE decayRun

ledger == <<balances, operatorData, baseURI>>

energyLogVars == <<energyLogs, energyLogIds, latestNodeLogs>>

oracleVars == <<nodeWorkloads, nodeIds, redistributionThreshold,
                slaVarianceThreshold, pendingRequests>>

web3Vars == <<web3, provider, account, networkId, isConnected, error,
              connecting, listeners>>

\* everything outside the EnergyToken contract
elsewhere == <<energyLogVars, oracleVars, web3Vars, decayRun>>

vars == <<now, balances, operatorData, baseURI, txCount, call, status, ret, logs,
          energyLogVars, oracleVars, web3Vars, decayRun>>

(* --------------------------- checked arithmetic ------------------------ *)

\* a * b does not fit the unsigned word (Solidity 0.8 reverts with Panic 0x11)
MulOverflows(a, b) == b # 0 /\ a > MaxUint \div b

\* a + b does not fit the unsigned word
AddOverflows(a, b) == a > MaxUint - b

(* ------------------------------ ERC-1155 ------------------------------- *)

ZeroAddress == "0x0"

balanceOf(bal, operator, tokenId) == bal[operator][tokenId]

RECURSIVE SumOver(_, _, _)
SumOver(bal, tokenId, ops) ==
    IF ops = {} THEN 0
    ELSE LET o == CHOOSE x \in ops : TRUE
         IN  bal[o][tokenId] + SumOver(bal, tokenId, ops \ {o})

\* ERC1155Supply.totalSupply: minted minus burned, i.e. the sum of the balances
totalSupply(bal, tokenId) == SumOver(bal, tokenId, Operators)

TransferSingle(from, to, id, value) ==
    [event |-> "TransferSingle", from |-> from, to |-> to, id |-> id, value |-> value]

\* ERC1155._mint to an externally owned account: the supply hook and the
\* balance update are checked additions; one TransferSingle event
_mint(bal, to, id, amount) ==
    IF AddOverflows(totalSupply(bal, id), amount) \/ AddOverflows(bal[to][id], amount)
    THEN [status |-> Panic, balances |-> bal, logs |-> <<>>]
    ELSE [status |-> OK,
          balances |-> [bal EXCEPT ![to][id] = @ + amount],
          logs |-> <<TransferSingle(ZeroAddress, to, id, amount)>>]

\* ERC1155._burn: one TransferSingle event
_burn(bal, from, id, amount) ==
    [status |-> OK,
     balances |-> [bal EXCEPT ![from][id] = @ - amount],
     logs |-> <<TransferSingle(from, ZeroAddress, id, amount)>>]

(* ---------------------------- decay algorithm -------------------------- *)

\* the loop compounding the loss as a gain: factor * (20000 - rate) / 10000
RECURSIVE decayLoop_grows(_, _, _, _)
decayLoop_grows(decayFactor, decayRate, i, daysSinceUpdate) ==
    IF i >= daysSinceUpdate THEN decayFactor
    ELSE IF MulOverflows(decayFactor, 2 * BASIS_POINTS - decayRate) THEN NoValue
    ELSE decayLoop_grows((decayFactor * (2 * BASIS_POINTS - decayRate)) \div BASIS_POINTS,
                         decayRate, i + 1, daysSinceUpdate)

\* the loop running one iteration too many (i <= daysSinceUpdate)
RECURSIVE decayLoop_extraDay(_, _, _, _)
decayLoop_extraDay(decayFactor, decayRate, i, daysSinceUpdate) ==
    IF i > daysSinceUpdate THEN decayFactor
    ELSE decayLoop_extraDay((decayFactor * decayRate) \div BASIS_POINTS, decayRate,
                            i + 1, daysSinceUpdate)

\* the loop dividing with the quotient rounded up
RECURSIVE decayLoop_roundsUp(_, _, _, _)
decayLoop_roundsUp(decayFactor, decayRate, i, daysSinceUpdate) ==
    IF i >= daysSinceUpdate THEN decayFactor
    ELSE IF MulOverflows(decayFactor, decayRate) THEN NoValue
    ELSE decayLoop_roundsUp((decayFactor * decayRate + BASIS_POINTS - 1) \div BASIS_POINTS,
                            decayRate, i + 1, daysSinceUpdate)

\* the for loop of getEffectiveBalance: i runs from i to daysSinceUpdate - 1
RECURSIVE decayLoop(_, _, _, _)
decayLoop(decayFactor, decayRate, i, daysSinceUpdate) ==
    IF i >= daysSinceUpdate THEN decayFactor
    ELSE IF MulOverflows(decayFactor, decayRate) THEN NoValue
    ELSE decayLoop((decayFactor * decayRate) \div BASIS_POINTS, decayRate,
                   i + 1, daysSinceUpdate)

\* getEffectiveBalance returning the raw balance through the first whole
\* day as well (daysSinceUpdate <= 1)
getEffectiveBalanceAt_graceDay(bal, od, t, operator, tokenId) ==
    IF od[operator].lastUpdate = 0 \/ balanceOf(bal, operator, tokenId) = 0
    THEN 0
    ELSE LET rawBalance == balanceOf(bal, operator, tokenId)
             daysSinceUpdate == (t - od[operator].lastUpdate) \div ONE_DAY
         IN  IF daysSinceUpdate <= 1 THEN rawBalance
             ELSE LET decayFactor == decayLoop(od[operator].decayRate,
                                               od[operator].decayRate,
                                               1, daysSinceUpdate)
                  IN  IF decayFactor = NoValue THEN NoValue
                      ELSE IF MulOverflows(rawBalance, decayFactor) THEN NoValue
                      ELSE (rawBalance * decayFactor) \div BASIS_POINTS

\* getEffectiveBalance counting the day that has started as elapsed
getEffectiveBalanceAt_startedDay(bal, od, t, operator, tokenId) ==
    IF od[operator].lastUpdate = 0 \/ balanceOf(bal, operator, tokenId) = 0
    THEN 0
    ELSE LET rawBalance == balanceOf(bal, operator, tokenId)
             daysSinceUpdate == (t - od[operator].lastUpdate) \div ONE_DAY + 1
             decayFactor == decayLoop(od[operator].decayRate,
                                      od[operator].decayRate,
                                      1, daysSinceUpdate)
         IN  IF decayFactor = NoValue THEN NoValue
             ELSE IF MulOverflows(rawBalance, decayFactor) THEN NoValue
             ELSE (rawBalance * decayFactor) \div BASIS_POINTS

\* getEffectiveBalance rounding the final quotient up instead of down
getEffectiveBalanceAt_roundsUp(bal, od, t, operator, tokenId) ==
    IF od[operator].lastUpdate = 0 \/ balanceOf(bal, operator, tokenId) = 0
    THEN 0
    ELSE LET rawBalance == balanceOf(bal, operator, tokenId)
             daysSinceUpdate == (t - od[operator].lastUpdate) \div ONE_DAY
         IN  IF daysSinceUpdate = 0 THEN rawBalance
             ELSE LET decayFactor == decayLoop(od[operator].decayRate,
                                               od[operator].decayRate,
                                               1, daysSinceUpdate)
                  IN  IF decayFactor = NoValue THEN NoValue
                      ELSE IF MulOverflows(rawBalance, decayFactor) THEN NoValue
                      ELSE (rawBalance * decayFactor + BASIS_POINTS - 1)
                               \div BASIS_POINTS

\* getEffectiveBalance dividing the final product by 1000 instead of 10000
getEffectiveBalanceAt_wrongScale(bal, od, t, operator, tokenId) ==
    IF od[operator].lastUpdate = 0 \/ balanceOf(bal, operator, tokenId) = 0
    THEN 0
    ELSE LET rawBalance == balanceOf(bal, operator, tokenId)
             daysSinceUpdate == (t - od[operator].lastUpdate) \div ONE_DAY
         IN  IF daysSinceUpdate = 0 THEN rawBalance
             ELSE LET decayFactor == decayLoop(od[operator].decayRate,
                                               od[operator].decayRate,
                                               1, daysSinceUpdate)
                  IN  IF MulOverflows(rawBalance, decayFactor) THEN NoValue
                      ELSE (rawBalance * decayFactor) \div (BASIS_POINTS \div 10)

\* getEffectiveBalance evaluated at block timestamp t; NoValue when it reverts
getEffectiveBalanceAt(bal, od, t, operator, tokenId) ==
    IF od[operator].lastUpdate = 0 \/ balanceOf(bal, operator, tokenId) = 0
    THEN 0
    ELSE LET rawBalance == balanceOf(bal, operator, tokenId)
         IN  IF t < od[operator].lastUpdate THEN NoValue
             ELSE LET daysSinceUpdate == (t - od[operator].lastUpdate) \div ONE_DAY
                  IN  IF daysSinceUpdate = 0 THEN rawBalance
                      ELSE LET decayFactor == decayLoop(od[operator].decayRate,
                                                        od[operator].decayRate,
                                                        1, daysSinceUpdate)
                           IN  IF decayFactor = NoValue THEN NoValue
                               ELSE IF MulOverflows(rawBalance, decayFactor) THEN NoValue
                               ELSE (rawBalance * decayFactor) \div BASIS_POINTS

getEffectiveBalance(operator, tokenId) ==
    getEffectiveBalanceAt(balances, operatorData, now, operator, tokenId)

\* _applyDecay comparing with <= : it burns also when nothing has decayed
_applyDecay_alwaysBurn(bal, od, t, operator, tokenId) ==
    LET effectiveBalance == getEffectiveBalanceAt(bal, od, t, operator, tokenId)
        currentBalance == balanceOf(bal, operator, tokenId)
    IN  IF effectiveBalance = NoValue
        THEN [status |-> Panic, balances |-> bal, logs |-> <<>>]
        ELSE IF effectiveBalance <= currentBalance
        THEN _burn(bal, operator, tokenId, currentBalance - effectiveBalance)
        ELSE [status |-> OK, balances |-> bal, logs |-> <<>>]

\* _applyDecay: burn the decayed portion of one token type
_applyDecay(bal, od, t, operator, tokenId) ==
    LET effectiveBalance == getEffectiveBalanceAt(bal, od, t, operator, tokenId)
        currentBalance == balanceOf(bal, operator, tokenId)
    IN  IF effectiveBalance = NoValue
        THEN [status |-> Panic, balances |-> bal, logs |-> <<>>]
        ELSE IF effectiveBalance < currentBalance
        THEN _burn(bal, operator, tokenId, currentBalance - effectiveBalance)
        ELSE [status |-> OK, balances |-> bal, logs |-> <<>>]

\* a rate change that reconciles one token type only, as an award does
applyDecayFrom_onlyFirst(bal, od, t, operator, i) ==
    _applyDecay(bal, od, t, operator, i)

\* the loop of setDecayRate: _applyDecay for i, i+1, ..., INNOVATION_TOKEN
RECURSIVE applyDecayFrom(_, _, _, _, _)
applyDecayFrom(bal, od, t, operator, i) ==
    IF i > INNOVATION_TOKEN THEN [status |-> OK, balances |-> bal, logs |-> <<>>]
    ELSE LET one == _applyDecay(bal, od, t, operator, i)
         IN  IF one.status # OK THEN one
             ELSE LET rest == applyDecayFrom(one.balances, od, t, operator, i + 1)
                  IN  [status |-> rest.status,
                       balances |-> rest.balances,
                       logs |-> one.logs \o rest.logs]

(* ------------------------------- calls --------------------------------- *)

NoArg == -1

NoAddr == "-"

Call(op, caller, operator, tokenId, amount, rate, uri) ==
    [op |-> op, caller |-> caller, operator |-> operator, tokenId |-> tokenId,
     amount |-> amount, rate |-> rate, uri |-> uri, at |-> now]

\* the modifier left off
onlyOwner_absent(caller) == TRUE

\* Ownable.onlyOwner
onlyOwner(caller) == caller = Owner

TokensAwarded(operator, tokenId, amount) ==
    [event |-> "TokensAwarded", operator |-> operator, tokenId |-> tokenId,
     amount |-> amount]

DecayRateUpdated(operator, newDecayRate) ==
    [event |-> "DecayRateUpdated", operator |-> operator, newDecayRate |-> newDecayRate]

\* a reverted transaction: the ledger is rolled back, no event survives
Revert(reason) ==
    /\ status' = reason
    /\ ret' = <<>>
    /\ logs' = <<>>
    /\ UNCHANGED <<balances, operatorData, baseURI>>

\* EnergyLog after construction: no log
InitEnergyLog ==
    /\ energyLogs = <<>>
    /\ energyLogIds = <<>>
    /\ latestNodeLogs = <<>>

\* WorkloadOracle after construction: the two thresholds' initializers
InitWorkloadOracle ==
    /\ nodeWorkloads = <<>>
    /\ nodeIds = <<>>
    /\ redistributionThreshold = 15
    /\ slaVarianceThreshold = 5
    /\ pendingRequests = {}

\* JavaScript's null
Null == "null"

\* the useState initial values; no connectWallet running, no listener
InitWeb3Provider ==
    /\ web3 = Null
    /\ provider = Null
    /\ account = Null
    /\ networkId = Null
    /\ isConnected = FALSE
    /\ error = Null
    /\ connecting = "idle"
    /\ listeners = 0

\* no getEffectiveBalance loop in progress
NoRun == [pc |-> "idle"]

Init ==
    /\ InitEnergyLog
    /\ InitWorkloadOracle
    /\ InitWeb3Provider
    /\ decayRun = NoRun
    /\ now = StartTime
    /\ balances = [o \in Operators |-> [t \in TokenIds |-> 0]]
    /\ operatorData = [o \in Operators |-> [lastUpdate |-> 0, decayRate |-> 0]]
    /\ baseURI = "uriA"
    /\ txCount = 0
    /\ call = [op |-> "constructor", caller |-> Owner, operator |-> NoAddr,
               tokenId |-> NoArg, amount |-> NoArg, rate |-> NoArg,
               uri |-> baseURI, at |-> StartTime]
    /\ status = OK
    /\ ret = <<>>
    /\ logs = <<>>

\* an award that mints without committing the pending decay first
awardBody_noDecay(operator, tokenId, amount) ==
    LET minted == _mint(balances, operator, tokenId, amount)
    IN  IF minted.status # OK THEN minted
        ELSE [status |-> OK,
              balances |-> minted.balances,
              logs |-> minted.logs \o <<TokensAwarded(operator, tokenId, amount)>>]

\* the result of awardTokens' body after its two require checks
awardBody(operator, tokenId, amount) ==
    LET decayed == IF operatorData[operator].lastUpdate = 0
                   THEN [status |-> OK, balances |-> balances, logs |-> <<>>]
                   ELSE _applyDecay(balances, operatorData, now, operator, tokenId)
        minted == _mint(decayed.balances, operator, tokenId, amount)
    IN  IF decayed.status # OK THEN decayed
        ELSE IF minted.status # OK THEN minted
        ELSE [status |-> OK,
              balances |-> minted.balances,
              logs |-> decayed.logs \o minted.logs
                       \o <<TokensAwarded(operator, tokenId, amount)>>]

\* an award that stamps lastUpdate only when it creates the profile
awardTokens_keepsLastUpdate(caller, operator, tokenId, amount) ==
    /\ txCount < MaxTx
    /\ txCount' = txCount + 1
    /\ call' = Call("awardTokens", caller, operator, tokenId, amount, NoArg, NoAddr)
    /\ UNCHANGED <<now, elsewhere>>
    /\ IF ~onlyOwner(caller) THEN Revert(NotOwner)
       ELSE IF ~(tokenId <= INNOVATION_TOKEN) THEN Revert(InvalidTokenId)
       ELSE IF ~(amount > 0) THEN Revert(InvalidAmount)
       ELSE LET r == awardBody(operator, tokenId, amount)
            IN  IF r.status # OK THEN Revert(r.status)
                ELSE /\ balances' = r.balances
                     /\ operatorData' =
                          [operatorData EXCEPT ![operator] =
                             IF operatorData[operator].lastUpdate = 0
                             THEN [lastUpdate |-> now, decayRate |-> DEFAULT_DECAY_RATE]
                             ELSE @]
                     /\ status' = OK
                     /\ ret' = <<>>
                     /\ logs' = r.logs
                     /\ UNCHANGED baseURI

awardTokens(caller, operator, tokenId, amount) ==
    /\ txCount < MaxTx
    /\ txCount' = txCount + 1
    /\ call' = Call("awardTokens", caller, operator, tokenId, amount, NoArg, NoAddr)
    /\ UNCHANGED <<now, elsewhere>>
    /\ IF ~onlyOwner(caller) THEN Revert(NotOwner)
       ELSE IF ~(tokenId <= INNOVATION_TOKEN) THEN Revert(InvalidTokenId)
       ELSE IF ~(amount > 0) THEN Revert(InvalidAmount)
       ELSE LET r == awardBody(operator, tokenId, amount)
            IN  IF r.status # OK THEN Revert(r.status)
                ELSE /\ balances' = r.balances
                     /\ operatorData' =
                          [operatorData EXCEPT ![operator] =
                             [lastUpdate |-> now,
                              decayRate |-> IF operatorData[operator].lastUpdate = 0
                                            THEN DEFAULT_DECAY_RATE
                                            ELSE @.decayRate]]
                     /\ status' = OK
                     /\ ret' = <<>>
                     /\ logs' = r.logs
                     /\ UNCHANGED baseURI

\* a rate change without the require on the rate
setDecayRate_noRequire(caller, operator, decayRate) ==
    /\ txCount < MaxTx
    /\ txCount' = txCount + 1
    /\ call' = Call("setDecayRate", caller, operator, NoArg, NoArg, decayRate, NoAddr)
    /\ UNCHANGED <<now, elsewhere>>
    /\ IF ~onlyOwner(caller) THEN Revert(NotOwner)
       ELSE LET r == IF operatorData[operator].lastUpdate = 0
                     THEN [status |-> OK, balances |-> balances, logs |-> <<>>]
                     ELSE applyDecayFrom(balances, operatorData, now, operator,
                                         EFFICIENCY_TOKEN)
            IN  IF r.status # OK THEN Revert(r.status)
                ELSE /\ balances' = r.balances
                     /\ operatorData' =
                          [operatorData EXCEPT ![operator] =
                             [lastUpdate |-> now, decayRate |-> decayRate]]
                     /\ status' = OK
                     /\ ret' = <<>>
                     /\ logs' = r.logs \o <<DecayRateUpdated(operator, decayRate)>>
                     /\ UNCHANGED baseURI

\* a rate change that emits DecayRateUpdated only for an existing profile
setDecayRate_silentCreate(caller, operator, decayRate) ==
    /\ txCount < MaxTx
    /\ txCount' = txCount + 1
    /\ call' = Call("setDecayRate", caller, operator, NoArg, NoArg, decayRate, NoAddr)
    /\ UNCHANGED <<now, elsewhere>>
    /\ IF ~onlyOwner(caller) THEN Revert(NotOwner)
       ELSE IF ~(decayRate <= BASIS_POINTS) THEN Revert(InvalidRate)
       ELSE LET r == IF operatorData[operator].lastUpdate = 0
                     THEN [status |-> OK, balances |-> balances, logs |-> <<>>]
                     ELSE applyDecayFrom(balances, operatorData, now, operator,
                                         EFFICIENCY_TOKEN)
            IN  IF r.status # OK THEN Revert(r.status)
                ELSE /\ balances' = r.balances
                     /\ operatorData' =
                          [operatorData EXCEPT ![operator] =
                             [lastUpdate |-> now, decayRate |-> decayRate]]
                     /\ status' = OK
                     /\ ret' = <<>>
                     /\ logs' = IF operatorData[operator].lastUpdate = 0
                                THEN r.logs
                                ELSE r.logs \o <<DecayRateUpdated(operator, decayRate)>>
                     /\ UNCHANGED baseURI

setDecayRate(caller, operator, decayRate) ==
    /\ txCount < MaxTx
    /\ txCount' = txCount + 1
    /\ call' = Call("setDecayRate", caller, operator, NoArg, NoArg, decayRate, NoAddr)
    /\ UNCHANGED <<now, elsewhere>>
    /\ IF ~onlyOwner(caller) THEN Revert(NotOwner)
       ELSE IF ~(decayRate <= BASIS_POINTS) THEN Revert(InvalidRate)
       ELSE LET r == IF operatorData[operator].lastUpdate = 0
                     THEN [status |-> OK, balances |-> balances, logs |-> <<>>]
                     ELSE applyDecayFrom(balances, operatorData, now, operator,
                                         EFFICIENCY_TOKEN)
            IN  IF r.status # OK THEN Revert(r.status)
                ELSE /\ balances' = r.balances
                     /\ operatorData' =
                          [operatorData EXCEPT ![operator] =
                             [lastUpdate |-> now, decayRate |-> decayRate]]
                     /\ status' = OK
                     /\ ret' = <<>>
                     /\ logs' = r.logs \o <<DecayRateUpdated(operator, decayRate)>>
                     /\ UNCHANGED baseURI

setURI(caller, newURI) ==
    /\ txCount < MaxTx
    /\ txCount' = txCount + 1
    /\ call' = Call("setURI", caller, NoAddr, NoArg, NoArg, NoArg, newURI)
    /\ UNCHANGED <<now, elsewhere>>
    /\ IF ~onlyOwner(caller) THEN Revert(NotOwner)
       ELSE /\ baseURI' = newURI
            /\ status' = OK
            /\ ret' = <<>>
            /\ logs' = <<>>
            /\ UNCHANGED <<balances, operatorData>>

\* a balance query that commits the decay it computes
callGetEffectiveBalance_commits(operator, tokenId) ==
    /\ call' = Call("getEffectiveBalance", NoAddr, operator, tokenId, NoArg, NoArg, NoAddr)
    /\ LET v == getEffectiveBalance(operator, tokenId)
       IN  /\ status' = IF v = NoValue THEN Panic ELSE OK
           /\ ret' = IF v = NoValue THEN <<>> ELSE <<v>>
           /\ balances' = IF v = NoValue THEN balances
                          ELSE [balances EXCEPT ![operator][tokenId] = v]
    /\ logs' = <<>>
    /\ UNCHANGED <<now, operatorData, baseURI, txCount, elsewhere>>

\* the view functions: an eth_call, which cannot write and emits nothing
callGetEffectiveBalance(operator, tokenId) ==
    /\ call' = Call("getEffectiveBalance", NoAddr, operator, tokenId, NoArg, NoArg, NoAddr)
    /\ LET v == getEffectiveBalance(operator, tokenId)
       IN  /\ status' = IF v = NoValue THEN Panic ELSE OK
           /\ ret' = IF v = NoValue THEN <<>> ELSE <<v>>
    /\ logs' = <<>>
    /\ UNCHANGED <<now, balances, operatorData, baseURI, txCount, elsewhere>>

callBalanceOf(operator, tokenId) ==
    /\ call' = Call("balanceOf", NoAddr, operator, tokenId, NoArg, NoArg, NoAddr)
    /\ status' = OK
    /\ ret' = <<balanceOf(balances, operator, tokenId)>>
    /\ logs' = <<>>
    /\ UNCHANGED <<now, balances, operatorData, baseURI, txCount, elsewhere>>

getOperatorData(operator) ==
    /\ call' = Call("getOperatorData", NoAddr, operator, NoArg, NoArg, NoArg, NoAddr)
    /\ status' = OK
    /\ ret' = <<operatorData[operator].lastUpdate, operatorData[operator].decayRate>>
    /\ logs' = <<>>
    /\ UNCHANGED <<now, balances, operatorData, baseURI, txCount, elsewhere>>

\* ERC1155.safeTransferFrom, inherited unchanged: a holder moves its own
\* tokens to another externally owned account (no approvals are granted)
safeTransferFrom(caller, from, to, id, amount) ==
    /\ txCount < MaxTx
    /\ txCount' = txCount + 1
    /\ call' = [op |-> "safeTransferFrom", caller |-> caller, operator |-> from,
                to |-> to, tokenId |-> id, amount |-> amount, rate |-> NoArg,
                uri |-> NoAddr, at |-> now]
    /\ UNCHANGED <<now, elsewhere>>
    /\ IF from # caller THEN Revert(NotTokenOwner)
       ELSE IF balances[from][id] < amount THEN Revert(InsufficientBalance)
       ELSE /\ balances' = [o \in Operators |-> [t \in TokenIds |->
                              IF t # id THEN balances[o][t]
                              ELSE balances[o][t]
                                   - (IF o = from THEN amount ELSE 0)
                                   + (IF o = to THEN amount ELSE 0)]]
            /\ status' = OK
            /\ ret' = <<>>
            /\ logs' = <<TransferSingle(from, to, id, amount)>>
            /\ UNCHANGED <<operatorData, baseURI>>

(* ------------------------------ EnergyLog ------------------------------ *)

\* bytes32(0) as a node id or a proof
ZeroBytes32 == "0x00"

\* bytes32(0) as a log id
ZeroLogId == <<>>

NodeOperator == "nodeOperator"

Nodes == {"node1", "node2"}

\* node ids a caller may pass: two nodes and the zero value
NodeIdInputs == Nodes \cup {ZeroBytes32}

\* PUE values a caller may pass: zero and the two of the test suite
PueInputs == {0, 1250, 1300}

ZkProofs == {"proof1"}

\* verification data a caller may pass: empty, and the test suite's bytes
VerificationInputs == {<<>>, <<"valid_verification_data">>}

\* keccak256(abi.encodePacked(...)): a collision-free hash, never zero
keccak256(pueValue, nodeId, zkProof, timestamp, sender) ==
    <<pueValue, nodeId, zkProof, timestamp, sender>>

\* the id of no log: the hash of another preimage
InvalidLogId == <<"invalid_log_id">>

PueNotPositive == "PUE value must be positive"

NodeIdZero == "Node ID cannot be zero"

LogIdExists == "Log ID already exists"

LogDoesNotExist == "Log does not exist"

LogAlreadyVerified == "Log already verified"

NoLogsForNode == "No logs for this node"

StartOutOfBounds == "Start index out of bounds"

\* a mapping slot never written reads as the zero struct
ZeroEnergyData ==
    [timestamp |-> 0, pueValue |-> 0, nodeId |-> ZeroBytes32,
     zkProof |-> ZeroBytes32, verified |-> FALSE]

\* energyLogs[logId]
energyLogAt(logsMap, logId) ==
    IF logId \in DOMAIN logsMap THEN logsMap[logId] ELSE ZeroEnergyData

\* latestNodeLogs[nodeId]
latestNodeLogAt(latest, nodeId) ==
    IF nodeId \in DOMAIN latest THEN latest[nodeId] ELSE ZeroLogId

EnergyLogCreated(logId, nodeId, timestamp, pueValue) ==
    [event |-> "EnergyLogCreated", logId |-> logId, nodeId |-> nodeId,
     timestamp |-> timestamp, pueValue |-> pueValue]

EnergyLogVerified(logId, nodeId, verified) ==
    [event |-> "EnergyLogVerified", logId |-> logId, nodeId |-> nodeId,
     verified |-> verified]

\* a reverted EnergyLog transaction
RevertLog(reason) == Revert(reason) /\ UNCHANGED energyLogVars

\* createEnergyLog recording a node's latest log only for its first log
createEnergyLog_keepsFirst(sender, pueValue, nodeId, zkProof) ==
    /\ txCount < MaxLogTx
    /\ txCount' = txCount + 1
    /\ call' = [op |-> "createEnergyLog", caller |-> sender, pueValue |-> pueValue,
                nodeId |-> nodeId, zkProof |-> zkProof, at |-> now]
    /\ UNCHANGED <<now, ledger, oracleVars, web3Vars, decayRun>>
    /\ IF ~(pueValue > 0) THEN RevertLog(PueNotPositive)
       ELSE IF ~(nodeId # ZeroBytes32) THEN RevertLog(NodeIdZero)
       ELSE LET logId == keccak256(pueValue, nodeId, zkProof, now, sender)
            IN  IF ~(energyLogAt(energyLogs, logId).timestamp = 0)
                THEN RevertLog(LogIdExists)
                ELSE /\ energyLogs' =
                          (logId :> [timestamp |-> now, pueValue |-> pueValue,
                                     nodeId |-> nodeId, zkProof |-> zkProof,
                                     verified |-> FALSE]) @@ energyLogs
                     /\ energyLogIds' = Append(energyLogIds, logId)
                     /\ latestNodeLogs' = latestNodeLogs @@ (nodeId :> logId)
                     /\ status' = OK
                     /\ ret' = <<logId>>
                     /\ logs' = <<EnergyLogCreated(logId, nodeId, now, pueValue)>>

\* createEnergyLog without the require on nodeId
createEnergyLog_anyNode(sender, pueValue, nodeId, zkProof) ==
    /\ txCount < MaxLogTx
    /\ txCount' = txCount + 1
    /\ call' = [op |-> "createEnergyLog", caller |-> sender, pueValue |-> pueValue,
                nodeId |-> nodeId, zkProof |-> zkProof, at |-> now]
    /\ UNCHANGED <<now, ledger, oracleVars, web3Vars, decayRun>>
    /\ IF ~(pueValue > 0) THEN RevertLog(PueNotPositive)
       ELSE LET logId == keccak256(pueValue, nodeId, zkProof, now, sender)
            IN  IF ~(energyLogAt(energyLogs, logId).timestamp = 0)
                THEN RevertLog(LogIdExists)
                ELSE /\ energyLogs' =
                          (logId :> [timestamp |-> now, pueValue |-> pueValue,
                                     nodeId |-> nodeId, zkProof |-> zkProof,
                                     verified |-> FALSE]) @@ energyLogs
                     /\ energyLogIds' = Append(energyLogIds, logId)
                     /\ latestNodeLogs' = (nodeId :> logId) @@ latestNodeLogs
                     /\ status' = OK
                     /\ ret' = <<logId>>
                     /\ logs' = <<EnergyLogCreated(logId, nodeId, now, pueValue)>>

createEnergyLog(sender, pueValue, nodeId, zkProof) ==
    /\ txCount < MaxLogTx
    /\ txCount' = txCount + 1
    /\ call' = [op |-> "createEnergyLog", caller |-> sender, pueValue |-> pueValue,
                nodeId |-> nodeId, zkProof |-> zkProof, at |-> now]
    /\ UNCHANGED <<now, ledger, oracleVars, web3Vars, decayRun>>
    /\ IF ~(pueValue > 0) THEN RevertLog(PueNotPositive)
       ELSE IF ~(nodeId # ZeroBytes32) THEN RevertLog(NodeIdZero)
       ELSE LET logId == keccak256(pueValue, nodeId, zkProof, now, sender)
            IN  IF ~(energyLogAt(energyLogs, logId).timestamp = 0)
                THEN RevertLog(LogIdExists)
                ELSE /\ energyLogs' =
                          (logId :> [timestamp |-> now, pueValue |-> pueValue,
                                     nodeId |-> nodeId, zkProof |-> zkProof,
                                     verified |-> FALSE]) @@ energyLogs
                     /\ energyLogIds' = Append(energyLogIds, logId)
                     /\ latestNodeLogs' = (nodeId :> logId) @@ latestNodeLogs
                     /\ status' = OK
                     /\ ret' = <<logId>>
                     /\ logs' = <<EnergyLogCreated(logId, nodeId, now, pueValue)>>

\* verifyEnergyLog without the require on the verified flag
verifyEnergyLog_again(sender, logId, verificationData) ==
    /\ txCount < MaxLogTx
    /\ txCount' = txCount + 1
    /\ call' = [op |-> "verifyEnergyLog", caller |-> sender, logId |-> logId,
                verificationData |-> verificationData, at |-> now]
    /\ UNCHANGED <<now, ledger, oracleVars, web3Vars, decayRun>>
    /\ IF ~(energyLogAt(energyLogs, logId).timestamp > 0)
       THEN RevertLog(LogDoesNotExist)
       ELSE LET verificationResult == Len(verificationData) > 0
            IN  /\ energyLogs' =
                     [energyLogs EXCEPT ![logId].verified = verificationResult]
                /\ status' = OK
                /\ ret' = <<verificationResult>>
                /\ logs' = <<EnergyLogVerified(logId, energyLogs[logId].nodeId,
                                               verificationResult)>>
                /\ UNCHANGED <<energyLogIds, latestNodeLogs>>

verifyEnergyLog(sender, logId, verificationData) ==
    /\ txCount < MaxLogTx
    /\ txCount' = txCount + 1
    /\ call' = [op |-> "verifyEnergyLog", caller |-> sender, logId |-> logId,
                verificationData |-> verificationData, at |-> now]
    /\ UNCHANGED <<now, ledger, oracleVars, web3Vars, decayRun>>
    /\ IF ~(energyLogAt(energyLogs, logId).timestamp > 0)
       THEN RevertLog(LogDoesNotExist)
       ELSE IF ~(~energyLogAt(energyLogs, logId).verified)
       THEN RevertLog(LogAlreadyVerified)
       ELSE LET verificationResult == Len(verificationData) > 0
            IN  /\ energyLogs' =
                     [energyLogs EXCEPT ![logId].verified = verificationResult]
                /\ status' = OK
                /\ ret' = <<verificationResult>>
                /\ logs' = <<EnergyLogVerified(logId, energyLogs[logId].nodeId,
                                               verificationResult)>>
                /\ UNCHANGED <<energyLogIds, latestNodeLogs>>

\* the views: [status, ret] of a call in the current state
getEnergyLog(logId) ==
    IF ~(energyLogAt(energyLogs, logId).timestamp > 0)
    THEN [status |-> LogDoesNotExist, ret |-> <<>>]
    ELSE [status |-> OK, ret |-> <<energyLogAt(energyLogs, logId)>>]

getLatestNodeLog(nodeId) ==
    LET logId == latestNodeLogAt(latestNodeLogs, nodeId)
    IN  IF ~(logId # ZeroLogId)
        THEN [status |-> NoLogsForNode, ret |-> <<>>]
        ELSE [status |-> OK, ret |-> <<energyLogAt(energyLogs, logId)>>]

getTotalLogs == [status |-> OK, ret |-> <<Len(energyLogIds)>>]

getEnergyLogBatch(start, count) ==
    IF ~(start < Len(energyLogIds))
    THEN [status |-> StartOutOfBounds, ret |-> <<>>]
    ELSE IF AddOverflows(start, count)
    THEN [status |-> Panic, ret |-> <<>>]
    ELSE LET adjusted == IF start + count > Len(energyLogIds)
                         THEN Len(energyLogIds) - start
                         ELSE count
         IN  [status |-> OK,
              ret |-> <<[i \in 1 .. adjusted |->
                           energyLogAt(energyLogs, energyLogIds[start + i])]>>]

\* a view called from outside: nothing but the call's record changes
ViewCall(c, result) ==
    /\ call' = c
    /\ status' = result.status
    /\ ret' = result.ret
    /\ logs' = <<>>
    /\ UNCHANGED <<now, txCount, ledger, elsewhere>>

callGetEnergyLog(logId) ==
    ViewCall([op |-> "getEnergyLog", logId |-> logId, at |-> now],
             getEnergyLog(logId))

callGetLatestNodeLog(nodeId) ==
    ViewCall([op |-> "getLatestNodeLog", nodeId |-> nodeId, at |-> now],
             getLatestNodeLog(nodeId))

callGetTotalLogs ==
    ViewCall([op |-> "getTotalLogs", at |-> now], getTotalLogs)

callGetEnergyLogBatch(start, count) ==
    ViewCall([op |-> "getEnergyLogBatch", start |-> start, count |-> count,
              at |-> now],
             getEnergyLogBatch(start, count))

(* ---------------------------- WorkloadOracle --------------------------- *)

\* the Chainlink oracle the constructor registers
ChainlinkOracle == "oracle"

\* senders of a fulfilment: the oracle and somebody else
FulfilSenders == {ChainlinkOracle, "stranger"}

\* loads an oracle may report: for a compute load of 100 the two cooling
\* loads give efficiencies 10 and 20 around the default threshold 15, the
\* third overflows coolingLoad * 100; SLA thresholds 100, 105 and 200 give
\* headrooms 0, 4 and 50 around the default threshold 5
CoolingInputs == {15, 20, MaxUint}

ComputeInputs == {0, 100}

SlaInputs == {100, 106, 200}

\* thresholds a caller may pass: the limits of 1..100 and their neighbours
ThresholdInputs == {0, 1, 20, 100, 101}

OnlyCallableByOwner == "Only callable by owner"

InvalidThreshold == "Invalid threshold value"

NodeDataNotAvailable == "Node data not available"

SourceMustBeOracle == "Source must be the oracle of the request"

\* Panic(0x12): division by zero
PanicDiv == "Panic(0x12)"

ZeroWorkloadData ==
    [timestamp |-> 0, coolingLoad |-> 0, computeLoad |-> 0, slaThreshold |-> 0,
     redistributionTriggered |-> FALSE]

\* nodeWorkloads[nodeId]
nodeWorkloadAt(workloads, nodeId) ==
    IF nodeId \in DOMAIN workloads THEN workloads[nodeId] ELSE ZeroWorkloadData

ChainlinkRequested(requestId) == [event |-> "ChainlinkRequested", id |-> requestId]

ChainlinkFulfilled(requestId) == [event |-> "ChainlinkFulfilled", id |-> requestId]

WorkloadDataReceived(nodeId, coolingLoad, computeLoad) ==
    [event |-> "WorkloadDataReceived", nodeId |-> nodeId,
     coolingLoad |-> coolingLoad, computeLoad |-> computeLoad]

RedistributionTriggered(nodeId, coolingLoad, timestamp) ==
    [event |-> "RedistributionTriggered", nodeId |-> nodeId,
     coolingLoad |-> coolingLoad, timestamp |-> timestamp]

ThresholdUpdated(thresholdType, newValue) ==
    [event |-> "ThresholdUpdated", thresholdType |-> thresholdType,
     newValue |-> newValue]

\* a reverted WorkloadOracle transaction
RevertOracle(reason) == Revert(reason) /\ UNCHANGED oracleVars

\* the body of checkAndTriggerRedistribution on the workloads given:
\* [status, ret, nodeWorkloads, logs]
\* checkAndTriggerRedistribution triggering at the threshold (>= in place of >)
checkBody_atThreshold(workloads, nodeId) ==
    LET workload == nodeWorkloadAt(workloads, nodeId)
        failed(reason) == [status |-> reason, ret |-> <<>>,
                           nodeWorkloads |-> workloads, logs |-> <<>>]
    IN  IF ~(workload.timestamp > 0) THEN failed(NodeDataNotAvailable)
        ELSE IF MulOverflows(workload.coolingLoad, 100) THEN failed(Panic)
        ELSE IF workload.computeLoad = 0 THEN failed(PanicDiv)
        ELSE IF /\ workload.slaThreshold > workload.computeLoad
                /\ MulOverflows(workload.slaThreshold - workload.computeLoad, 100)
        THEN failed(Panic)
        ELSE LET coolingEfficiency ==
                     (workload.coolingLoad * 100) \div workload.computeLoad
                 slaHeadroom ==
                     IF workload.slaThreshold > workload.computeLoad
                     THEN ((workload.slaThreshold - workload.computeLoad) * 100)
                              \div workload.slaThreshold
                     ELSE 0
             IN  IF /\ coolingEfficiency >= redistributionThreshold
                    /\ slaHeadroom > slaVarianceThreshold
                 THEN [status |-> OK, ret |-> <<TRUE>>,
                       nodeWorkloads |->
                           [workloads EXCEPT ![nodeId].redistributionTriggered = TRUE],
                       logs |-> <<RedistributionTriggered(nodeId, workload.coolingLoad,
                                                          now)>>]
                 ELSE [status |-> OK, ret |-> <<FALSE>>,
                       nodeWorkloads |-> workloads, logs |-> <<>>]

checkBody(workloads, nodeId) ==
    LET workload == nodeWorkloadAt(workloads, nodeId)
        failed(reason) == [status |-> reason, ret |-> <<>>,
                           nodeWorkloads |-> workloads, logs |-> <<>>]
    IN  IF ~(workload.timestamp > 0) THEN failed(NodeDataNotAvailable)
        ELSE IF MulOverflows(workload.coolingLoad, 100) THEN failed(Panic)
        ELSE IF workload.computeLoad = 0 THEN failed(PanicDiv)
        ELSE IF /\ workload.slaThreshold > workload.computeLoad
                /\ MulOverflows(workload.slaThreshold - workload.computeLoad, 100)
        THEN failed(Panic)
        ELSE LET coolingEfficiency ==
                     (workload.coolingLoad * 100) \div workload.computeLoad
                 slaHeadroom ==
                     IF workload.slaThreshold > workload.computeLoad
                     THEN ((workload.slaThreshold - workload.computeLoad) * 100)
                              \div workload.slaThreshold
                     ELSE 0
             IN  IF /\ coolingEfficiency > redistributionThreshold
                    /\ slaHeadroom > slaVarianceThreshold
                 THEN [status |-> OK, ret |-> <<TRUE>>,
                       nodeWorkloads |->
                           [workloads EXCEPT ![nodeId].redistributionTriggered = TRUE],
                       logs |-> <<RedistributionTriggered(nodeId, workload.coolingLoad,
                                                          now)>>]
                 ELSE [status |-> OK, ret |-> <<FALSE>>,
                       nodeWorkloads |-> workloads, logs |-> <<>>]

\* requestWorkloadData: the owner's request becomes pending at the oracle;
\* the request id is fresh for every transaction
requestWorkloadData(caller, nodeId) ==
    /\ txCount < MaxOracleTx
    /\ txCount' = txCount + 1
    /\ call' = [op |-> "requestWorkloadData", caller |-> caller, nodeId |-> nodeId,
                at |-> now]
    /\ UNCHANGED <<now, ledger, energyLogVars, web3Vars, decayRun>>
    /\ IF caller # Owner THEN RevertOracle(OnlyCallableByOwner)
       ELSE LET requestId == <<"request", txCount>>
            IN  /\ pendingRequests' = pendingRequests \cup {requestId}
                /\ status' = OK
                /\ ret' = <<requestId>>
                /\ logs' = <<ChainlinkRequested(requestId)>>
                /\ UNCHANGED <<nodeWorkloads, nodeIds, redistributionThreshold,
                               slaVarianceThreshold>>

\* fulfillWorkloadData pushing the node id on every callback
fulfillWorkloadData_alwaysPush(sender, requestId, nodeId, coolingLoad, computeLoad, slaThreshold) ==
    /\ txCount < MaxOracleTx
    /\ txCount' = txCount + 1
    /\ call' = [op |-> "fulfillWorkloadData", caller |-> sender,
                requestId |-> requestId, nodeId |-> nodeId,
                coolingLoad |-> coolingLoad, computeLoad |-> computeLoad,
                slaThreshold |-> slaThreshold, at |-> now]
    /\ UNCHANGED <<now, ledger, energyLogVars, web3Vars, decayRun>>
    /\ IF ~(requestId \in pendingRequests /\ sender = ChainlinkOracle)
       THEN RevertOracle(SourceMustBeOracle)
       ELSE LET stored == (nodeId :> [timestamp |-> now,
                                      coolingLoad |-> coolingLoad,
                                      computeLoad |-> computeLoad,
                                      slaThreshold |-> slaThreshold,
                                      redistributionTriggered |-> FALSE])
                              @@ nodeWorkloads
                checked == checkBody(stored, nodeId)
            IN  IF checked.status # OK THEN RevertOracle(checked.status)
                ELSE /\ pendingRequests' = pendingRequests \ {requestId}
                     /\ nodeIds' = Append(nodeIds, nodeId)
                     /\ nodeWorkloads' = checked.nodeWorkloads
                     /\ status' = OK
                     /\ ret' = <<>>
                     /\ logs' = <<ChainlinkFulfilled(requestId),
                                  WorkloadDataReceived(nodeId, coolingLoad, computeLoad)>>
                                \o checked.logs
                     /\ UNCHANGED <<redistributionThreshold, slaVarianceThreshold>>

fulfillWorkloadData(sender, requestId, nodeId, coolingLoad, computeLoad, slaThreshold) ==
    /\ txCount < MaxOracleTx
    /\ txCount' = txCount + 1
    /\ call' = [op |-> "fulfillWorkloadData", caller |-> sender,
                requestId |-> requestId, nodeId |-> nodeId,
                coolingLoad |-> coolingLoad, computeLoad |-> computeLoad,
                slaThreshold |-> slaThreshold, at |-> now]
    /\ UNCHANGED <<now, ledger, energyLogVars, web3Vars, decayRun>>
    /\ IF ~(requestId \in pendingRequests /\ sender = ChainlinkOracle)
       THEN RevertOracle(SourceMustBeOracle)
       ELSE LET stored == (nodeId :> [timestamp |-> now,
                                      coolingLoad |-> coolingLoad,
                                      computeLoad |-> computeLoad,
                                      slaThreshold |-> slaThreshold,
                                      redistributionTriggered |-> FALSE])
                              @@ nodeWorkloads
                checked == checkBody(stored, nodeId)
            IN  IF checked.status # OK THEN RevertOracle(checked.status)
                ELSE /\ pendingRequests' = pendingRequests \ {requestId}
                     /\ nodeIds' = IF nodeWorkloadAt(nodeWorkloads, nodeId).timestamp = 0
                                   THEN Append(nodeIds, nodeId)
                                   ELSE nodeIds
                     /\ nodeWorkloads' = checked.nodeWorkloads
                     /\ status' = OK
                     /\ ret' = <<>>
                     /\ logs' = <<ChainlinkFulfilled(requestId),
                                  WorkloadDataReceived(nodeId, coolingLoad, computeLoad)>>
                                \o checked.logs
                     /\ UNCHANGED <<redistributionThreshold, slaVarianceThreshold>>

checkAndTriggerRedistribution(caller, nodeId) ==
    /\ txCount < MaxOracleTx
    /\ txCount' = txCount + 1
    /\ call' = [op |-> "checkAndTriggerRedistribution", caller |-> caller,
                nodeId |-> nodeId, at |-> now]
    /\ UNCHANGED <<now, ledger, energyLogVars, web3Vars, decayRun>>
    /\ LET checked == checkBody(nodeWorkloads, nodeId)
       IN  IF checked.status # OK THEN RevertOracle(checked.status)
           ELSE /\ nodeWorkloads' = checked.nodeWorkloads
                /\ status' = OK
                /\ ret' = checked.ret
                /\ logs' = checked.logs
                /\ UNCHANGED <<nodeIds, redistributionThreshold,
                               slaVarianceThreshold, pendingRequests>>

updateRedistributionThreshold(caller, newThreshold) ==
    /\ txCount < MaxOracleTx
    /\ txCount' = txCount + 1
    /\ call' = [op |-> "updateRedistributionThreshold", caller |-> caller,
                newThreshold |-> newThreshold, at |-> now]
    /\ UNCHANGED <<now, ledger, energyLogVars, web3Vars, decayRun>>
    /\ IF caller # Owner THEN RevertOracle(OnlyCallableByOwner)
       ELSE IF ~(newThreshold > 0 /\ newThreshold <= 100)
       THEN RevertOracle(InvalidThreshold)
       ELSE /\ redistributionThreshold' = newThreshold
            /\ status' = OK
            /\ ret' = <<>>
            /\ logs' = <<ThresholdUpdated("redistribution", newThreshold)>>
            /\ UNCHANGED <<nodeWorkloads, nodeIds, slaVarianceThreshold,
                           pendingRequests>>

\* updateSlaVarianceThreshold accepting 0 (>= in place of >)
updateSlaVarianceThreshold_allowsZero(caller, newThreshold) ==
    /\ txCount < MaxOracleTx
    /\ txCount' = txCount + 1
    /\ call' = [op |-> "updateSlaVarianceThreshold", caller |-> caller,
                newThreshold |-> newThreshold, at |-> now]
    /\ UNCHANGED <<now, ledger, energyLogVars, web3Vars, decayRun>>
    /\ IF caller # Owner THEN RevertOracle(OnlyCallableByOwner)
       ELSE IF ~(newThreshold >= 0 /\ newThreshold <= 100)
       THEN RevertOracle(InvalidThreshold)
       ELSE /\ slaVarianceThreshold' = newThreshold
            /\ status' = OK
            /\ ret' = <<>>
            /\ logs' = <<ThresholdUpdated("slaVariance", newThreshold)>>
            /\ UNCHANGED <<nodeWorkloads, nodeIds, redistributionThreshold,
                           pendingRequests>>

updateSlaVarianceThreshold(caller, newThreshold) ==
    /\ txCount < MaxOracleTx
    /\ txCount' = txCount + 1
    /\ call' = [op |-> "updateSlaVarianceThreshold", caller |-> caller,
                newThreshold |-> newThreshold, at |-> now]
    /\ UNCHANGED <<now, ledger, energyLogVars, web3Vars, decayRun>>
    /\ IF caller # Owner THEN RevertOracle(OnlyCallableByOwner)
       ELSE IF ~(newThreshold > 0 /\ newThreshold <= 100)
       THEN RevertOracle(InvalidThreshold)
       ELSE /\ slaVarianceThreshold' = newThreshold
            /\ status' = OK
            /\ ret' = <<>>
            /\ logs' = <<ThresholdUpdated("slaVariance", newThreshold)>>
            /\ UNCHANGED <<nodeWorkloads, nodeIds, redistributionThreshold,
                           pendingRequests>>

\* a later block: block.timestamp grows
(* ------------- getEffectiveBalance, one iteration at a time ------------ *)

\* The variable decayRun holds the locals of one getEffectiveBalance call
\* made by _applyDecay for an account with a profile and a positive balance:
\* the rate and balance it read, daysSinceUpdate, the loop counter i and
\* decayFactor.  The period is given in whole days: 10000 days of seconds
\* do not fit the scaled word the ledger model keeps its timestamps in.

LoopRates == {0, 1, 5000, 9000, DEFAULT_DECAY_RATE, BASIS_POINTS - 2,
              BASIS_POINTS - 1, BASIS_POINTS}

LoopBalances == {1, MaxUint}

LoopDays == {0, 1, 2, BASIS_POINTS - 1, BASIS_POINTS, MaxLoopDays}

otherThanRun == <<now, ledger, txCount, call, status, ret, logs,
                  energyLogVars, oracleVars, web3Vars>>

\* up to the loop: daysSinceUpdate = 0 returns the raw balance, otherwise
\* decayFactor starts as the rate and i as 1
enterDecayLoop(decayRate, rawBalance, daysSinceUpdate) ==
    /\ decayRun.pc = "idle"
    /\ decayRun' = IF daysSinceUpdate = 0
                   THEN [pc |-> "returned", decayRate |-> decayRate,
                         rawBalance |-> rawBalance,
                         daysSinceUpdate |-> daysSinceUpdate,
                         i |-> 0, decayFactor |-> BASIS_POINTS,
                         effectiveBalance |-> rawBalance]
                   ELSE [pc |-> "loop", decayRate |-> decayRate,
                         rawBalance |-> rawBalance,
                         daysSinceUpdate |-> daysSinceUpdate,
                         i |-> 1, decayFactor |-> decayRate,
                         effectiveBalance |-> NoValue]
    /\ UNCHANGED otherThanRun

\* one iteration of the loop
iterateDecayLoop ==
    /\ decayRun.pc = "loop"
    /\ decayRun.i < decayRun.daysSinceUpdate
    /\ LET next == decayLoop(decayRun.decayFactor, decayRun.decayRate,
                             decayRun.i, decayRun.i + 1)
       IN  decayRun' = IF next = NoValue
                       THEN [decayRun EXCEPT !.pc = "reverted"]
                       ELSE [decayRun EXCEPT !.decayFactor = next, !.i = @ + 1]
    /\ UNCHANGED otherThanRun

\* the loop is left and the factor applied to the balance
exitDecayLoop ==
    /\ decayRun.pc = "loop"
    /\ ~(decayRun.i < decayRun.daysSinceUpdate)
    /\ decayRun' = IF MulOverflows(decayRun.rawBalance, decayRun.decayFactor)
                   THEN [decayRun EXCEPT !.pc = "reverted"]
                   ELSE [decayRun EXCEPT
                            !.pc = "returned",
                            !.effectiveBalance =
                                (decayRun.rawBalance * decayRun.decayFactor)
                                    \div BASIS_POINTS]
    /\ UNCHANGED otherThanRun

\* _applyDecay with the value returned: the decayed portion is burned
applyDecayResult ==
    /\ decayRun.pc = "returned"
    /\ decayRun' = IF decayRun.effectiveBalance < decayRun.rawBalance
                   THEN [decayRun EXCEPT
                            !.pc = "applied",
                            !.rawBalance = @ - (@ - decayRun.effectiveBalance)]
                   ELSE [decayRun EXCEPT !.pc = "applied"]
    /\ UNCHANGED otherThanRun

(* ------------------------ Web3Provider (frontend) ---------------------- *)

Web3Instance == "new Web3(window.ethereum)"

EthersProvider == "new ethers.BrowserProvider(window.ethereum)"

WalletAccounts == {"0xA", "0xB"}

\* the lists the wallet reports: none, one or two accounts
AccountLists == {<<>>} \cup {<<a>> : a \in WalletAccounts}
                    \cup {<<a, b>> : a, b \in WalletAccounts}

NetworkIds == {"1", "1337"}

InstallMetaMask == "Please install MetaMask to use this application"

\* err.message of a rejected wallet request
ErrorMessages == {"User rejected the request", "Failed to connect to wallet"}

otherThanWeb3 == <<now, ledger, txCount, call, status, ret, logs,
                   energyLogVars, oracleVars, decayRun>>

\* connectWallet up to its first await: the error is cleared and, with a
\* wallet in the page, eth_requestAccounts is awaited
connectWallet(hasEthereum) ==
    /\ connecting = "idle"
    /\ listeners < MaxListeners
    /\ IF hasEthereum
       THEN /\ error' = Null
            /\ connecting' = "eth_requestAccounts"
       ELSE /\ error' = InstallMetaMask
            /\ connecting' = "idle"
    /\ UNCHANGED <<web3, provider, account, networkId, isConnected, listeners>>
    /\ UNCHANGED otherThanWeb3

\* eth_requestAccounts resolves: web3, provider and account are set and
\* connectWallet is suspended again, at eth.net.getId()
requestAccountsResolved(accounts) ==
    /\ connecting = "eth_requestAccounts"
    /\ web3' = Web3Instance
    /\ provider' = EthersProvider
    /\ account' = accounts[1]
    /\ connecting' = "getId"
    /\ UNCHANGED <<networkId, isConnected, error, listeners>>
    /\ UNCHANGED otherThanWeb3

\* either await rejects: the catch block records the message, nothing else
connectWalletRejected(message) ==
    /\ connecting \in {"eth_requestAccounts", "getId"}
    /\ error' = message
    /\ connecting' = "idle"
    /\ UNCHANGED <<web3, provider, account, networkId, isConnected, listeners>>
    /\ UNCHANGED otherThanWeb3

\* getId resolves: the network id is set, isConnected becomes true and the
\* handlers are registered
getIdResolved(network) ==
    /\ connecting = "getId"
    /\ networkId' = network
    /\ isConnected' = TRUE
    /\ listeners' = listeners + 1
    /\ connecting' = "idle"
    /\ UNCHANGED <<web3, provider, account, error>>
    /\ UNCHANGED otherThanWeb3

\* disconnectWallet called by a consumer of the context.  removeListener is
\* given the handler of the current render, which is not the function
\* connectWallet registered in an earlier render: no listener is removed.
disconnectWallet ==
    /\ web3' = Null
    /\ provider' = Null
    /\ account' = Null
    /\ networkId' = Null
    /\ isConnected' = FALSE
    /\ UNCHANGED <<error, connecting, listeners>>
    /\ UNCHANGED otherThanWeb3

\* the wallet emits accountsChanged: every registered handler runs.  With no
\* account left each one calls the disconnectWallet of its own render, which
\* removes that very handler; otherwise the first account is stored.
handleAccountsChanged(accounts) ==
    /\ listeners > 0
    /\ IF Len(accounts) = 0
       THEN /\ web3' = Null
            /\ provider' = Null
            /\ account' = Null
            /\ networkId' = Null
            /\ isConnected' = FALSE
            /\ listeners' = 0
       ELSE /\ account' = accounts[1]
            /\ UNCHANGED <<web3, provider, networkId, isConnected, listeners>>
    /\ UNCHANGED <<error, connecting>>
    /\ UNCHANGED otherThanWeb3

\* the wallet emits chainChanged: the page is reloaded
handleChainChanged ==
    /\ listeners > 0
    /\ web3' = Null
    /\ provider' = Null
    /\ account' = Null
    /\ networkId' = Null
    /\ isConnected' = FALSE
    /\ error' = Null
    /\ connecting' = "idle"
    /\ listeners' = 0
    /\ UNCHANGED otherThanWeb3

AdvanceTime(d) ==
    /\ now + d <= MaxTime
    /\ now' = now + d
    /\ UNCHANGED <<balances, operatorData, baseURI, txCount, call, status, ret, logs, elsewhere>>

Next ==
    \/ \E c \in Callers, o \in Operators, t \in TokenIdInputs, a \in AmountInputs :
           awardTokens(c, o, t, a)
    \/ \E c \in Callers, o \in Operators, r \in RateInputs : setDecayRate(c, o, r)
    \/ \E c \in Callers, u \in URIs : setURI(c, u)
    \/ \E d \in TimeSteps : AdvanceTime(d)

\* the transactions and the passage of time
Spec == Init /\ [][Next]_vars

\* the view functions, queried between the owner's transactions of the test
\* suite (awards of 1000 units, the rate 9000) and the passage of time
NextReads ==
    \/ \E o \in Operators, t \in TokenIds, a \in SuiteAmounts :
           awardTokens(Owner, o, t, a)
    \/ \E o \in Operators, r \in SuiteRates : setDecayRate(Owner, o, r)
    \/ \E o \in Operators, t \in TokenIds : callGetEffectiveBalance(o, t)
    \/ \E o \in Operators, t \in TokenIds : callBalanceOf(o, t)
    \/ \E o \in Operators : getOperatorData(o)
    \/ \E d \in TimeSteps : AdvanceTime(d)

SpecReads == Init /\ [][NextReads]_vars

\* the ledger with the inherited transfers: the owner awards and sets
\* rates, holders pass their tokens on, time passes
NextTransfer ==
    \/ \E o \in Operators, t \in TokenIds, a \in SuiteAmounts :
           awardTokens(Owner, o, t, a)
    \/ \E o \in Operators, r \in SuiteRates : setDecayRate(Owner, o, r)
    \/ \E c \in Operators, from \in Operators, to \in Operators,
          t \in TokenIds, a \in SuiteAmounts :
           safeTransferFrom(c, from, to, t, a)
    \/ \E d \in TimeSteps : AdvanceTime(d)

SpecTransfer == Init /\ [][NextTransfer]_vars

\* an account set up for decay: the owner has given op1 the rate r with
\* setDecayRate and then awarded raw units of every token type, all in the
\* deployment block; transactions are counted from this setup on
RawInputs == {1, 1000, MaxUint - 1000}

DecayRates == {0, 9000, DEFAULT_DECAY_RATE, BASIS_POINTS}

DecayAmounts == {1, 1000}

DecayOperator == "op1"

InitDecay ==
    \E r \in DecayRates, raw \in RawInputs :
        /\ InitEnergyLog
        /\ InitWorkloadOracle
        /\ InitWeb3Provider
        /\ decayRun = NoRun
        /\ now = StartTime
        /\ balances = [o \in Operators |-> [t \in TokenIds |->
                           IF o = DecayOperator THEN raw ELSE 0]]
        /\ operatorData = [o \in Operators |->
                              IF o = DecayOperator
                              THEN [lastUpdate |-> StartTime, decayRate |-> r]
                              ELSE [lastUpdate |-> 0, decayRate |-> 0]]
        /\ baseURI = "uriA"
        /\ txCount = 0
        /\ call = [op |-> "awardTokens", caller |-> Owner,
                   operator |-> DecayOperator, tokenId |-> INNOVATION_TOKEN,
                   amount |-> raw, rate |-> NoArg, uri |-> NoAddr,
                   at |-> StartTime]
        /\ status = OK
        /\ ret = <<>>
        /\ logs = <<TransferSingle(ZeroAddress, DecayOperator, INNOVATION_TOKEN, raw),
                    TokensAwarded(DecayOperator, INNOVATION_TOKEN, raw)>>

NextDecay ==
    \/ \E t \in TokenIds, a \in DecayAmounts :
           awardTokens(Owner, DecayOperator, t, a)
    \/ \E r \in DecayRates : setDecayRate(Owner, DecayOperator, r)
    \/ \E t \in TokenIds : callGetEffectiveBalance(DecayOperator, t)
    \/ \E d \in TimeSteps : AdvanceTime(d)

SpecDecay == InitDecay /\ [][NextDecay]_vars

\* start indexes and counts a caller may pass to getEnergyLogBatch
StartInputs == 0 .. 2

CountInputs == {0, 1, 2, MaxUint}

\* the ids a caller may pass: those of the logs created, and one of no log
LogIdInputs == {energyLogIds[i] : i \in 1 .. Len(energyLogIds)} \cup {InvalidLogId}

\* EnergyLog: anyone creates and verifies logs and calls the views
NextLog ==
    \/ \E p \in PueInputs, n \in NodeIdInputs, z \in ZkProofs :
           createEnergyLog(NodeOperator, p, n, z)
    \/ \E id \in LogIdInputs, v \in VerificationInputs :
           verifyEnergyLog(Owner, id, v)
    \/ \E id \in LogIdInputs : callGetEnergyLog(id)
    \/ \E n \in NodeIdInputs : callGetLatestNodeLog(n)
    \/ callGetTotalLogs
    \/ \E s \in StartInputs, c \in CountInputs : callGetEnergyLogBatch(s, c)
    \/ AdvanceTime(ONE_DAY)

SpecLog == Init /\ [][NextLog]_vars

\* request ids a sender may pass: the pending ones and one never issued
RequestIdInputs == pendingRequests \cup {<<"request", MaxOracleTx>>}

\* WorkloadOracle: the owner requests data and moves the thresholds, the
\* oracle (or somebody else) reports loads, anyone runs the check
NextOracle ==
    \/ \E c \in Callers : requestWorkloadData(c, "node1")
    \/ \E id \in RequestIdInputs, n \in Nodes,
          cool \in CoolingInputs, comp \in ComputeInputs, sla \in SlaInputs :
           fulfillWorkloadData(ChainlinkOracle, id, n, cool, comp, sla)
    \/ \E s \in FulfilSenders \ {ChainlinkOracle}, id \in RequestIdInputs :
           fulfillWorkloadData(s, id, "node1", 20, 100, 200)
    \/ \E n \in Nodes : checkAndTriggerRedistribution("stranger", n)
    \/ \E v \in ThresholdInputs : updateRedistributionThreshold(Owner, v)
    \/ \E v \in ThresholdInputs : updateSlaVarianceThreshold(Owner, v)
    \/ \E c \in Callers \ {Owner} : updateRedistributionThreshold(c, 20)
    \/ \E c \in Callers \ {Owner} : updateSlaVarianceThreshold(c, 20)
    \/ AdvanceTime(ONE_DAY)

SpecOracle == Init /\ [][NextOracle]_vars

\* one getEffectiveBalance call followed through its loop and the burn
NextLoop ==
    \/ \E r \in LoopRates, b \in LoopBalances, d \in LoopDays : enterDecayLoop(r, b, d)
    \/ iterateDecayLoop
    \/ exitDecayLoop
    \/ applyDecayResult

SpecLoop == Init /\ [][NextLoop]_vars

\* the context's consumers connect and disconnect; the wallet answers the
\* two requests and emits its events
NextWallet ==
    \/ \E hasEthereum \in BOOLEAN : connectWallet(hasEthereum)
    \/ \E accounts \in AccountLists \ {<<>>} : requestAccountsResolved(accounts)
    \/ \E message \in ErrorMessages : connectWalletRejected(message)
    \/ \E network \in NetworkIds : getIdResolved(network)
    \/ disconnectWallet
    \/ \E accounts \in AccountLists : handleAccountsChanged(accounts)
    \/ handleChainChanged

SpecWallet == Init /\ [][NextWallet]_vars

TypeOK ==
    /\ now \in StartTime .. MaxTime
    /\ \A o \in Operators, t \in TokenIds : balances[o][t] \in 0 .. MaxUint
    /\ txCount \in 0 .. MaxTx \/ txCount \in 0 .. MaxLogTx \/ txCount \in 0 .. MaxOracleTx

(* ======================= properties of the ledger ====================== *)

\* the block timestamps at which a query is evaluated: now and later ones,
\* on and just before whole-day boundaries
QueryTimes ==
    {now + d : d \in {0, ONE_DAY - 1, ONE_DAY, 2 * ONE_DAY, MaxHalfDays * ONE_DAY}}

HasProfile(o) == operatorData[o].lastUpdate # 0

\* C1: in every reachable state, for every account, token type and query
\* time, the value getEffectiveBalance returns is at least 0 and at most the
\* raw balance balanceOf returns.
C1_NoGrowth ==
    \A o \in Operators, t \in TokenIds, time \in QueryTimes :
        LET e == getEffectiveBalanceAt(balances, operatorData, time, o, t)
        IN  e # NoValue => (0 <= e /\ e <= balanceOf(balances, o, t))

\* pending decay: some effective balance is positive and strictly below
\* the raw balance it was computed from
C1_Witness ==
    \E o \in Operators, t \in TokenIds :
        /\ getEffectiveBalance(o, t) > 0
        /\ getEffectiveBalance(o, t) < balanceOf(balances, o, t)

\* the reference compounding factor: f_1 = rate, f_(k+1) = floor(f_k * rate / 10000)
RECURSIVE RefFactor(_, _)
RefFactor(rate, k) ==
    IF k <= 1 THEN rate ELSE (RefFactor(rate, k - 1) * rate) \div 10000

RefEffective(raw, rate, d) ==
    IF d = 0 THEN raw ELSE (raw * RefFactor(rate, d)) \div 10000

\* C2: for an account with a profile and a non-zero raw balance, the value
\* getEffectiveBalance returns equals the reference stepwise computation on
\* d = floor((time - lastUpdate) / 86400) whole days; 1000 units at rate
\* 9000 give 1000 just before one day, 900 after one day, 810 after two.
C2_MatchesReference ==
    \A o \in Operators, t \in TokenIds :
        (HasProfile(o) /\ balanceOf(balances, o, t) > 0) =>
            /\ \A time \in QueryTimes :
                 LET e == getEffectiveBalanceAt(balances, operatorData, time, o, t)
                 IN  e # NoValue =>
                       e = RefEffective(balanceOf(balances, o, t),
                                        operatorData[o].decayRate,
                                        (time - operatorData[o].lastUpdate) \div 86400)
            /\ (balanceOf(balances, o, t) = 1000 /\ operatorData[o].decayRate = 9000) =>
                 LET lu == operatorData[o].lastUpdate
                 IN  /\ getEffectiveBalanceAt(balances, operatorData, lu + 86399, o, t) = 1000
                     /\ getEffectiveBalanceAt(balances, operatorData, lu + 86400, o, t) = 900
                     /\ getEffectiveBalanceAt(balances, operatorData, lu + 172800, o, t) = 810

\* 1000 units at rate 9000, exactly two days after the last update
C2_Witness ==
    \E o \in Operators, t \in TokenIds :
        /\ balanceOf(balances, o, t) = 1000
        /\ operatorData[o].decayRate = 9000
        /\ now - operatorData[o].lastUpdate = 2 * ONE_DAY
        /\ getEffectiveBalance(o, t) = 810

\* the step is the transaction op, sent now
TxStep(op) == txCount' = txCount + 1 /\ call'.op = op

LedgerUnchanged == UNCHANGED <<balances, operatorData, baseURI>>

C5_OnlyAwardIncreases ==
    [][\A o \in Operators, t \in TokenIds :
         LET before == getEffectiveBalanceAt(balances, operatorData, now, o, t)
             after == getEffectiveBalanceAt(balances', operatorData', now', o, t)
         IN  (before # NoValue /\ after # NoValue /\ after > before) =>
                 /\ TxStep("awardTokens")
                 /\ status' = OK
                 /\ call'.operator = o
                 /\ call'.tokenId = t]_vars

\* an award by the owner with a valid token id and a positive amount to an
\* account that has no decay profile
FirstAwardStep ==
    /\ TxStep("awardTokens")
    /\ call'.caller = Owner
    /\ call'.tokenId \in TokenIds
    /\ call'.amount > 0
    /\ ~HasProfile(call'.operator)

FirstAwardEffect ==
    LET o == call'.operator
        t == call'.tokenId
        a == call'.amount
    IN  /\ status' = OK
        /\ operatorData'[o] = [lastUpdate |-> now, decayRate |-> 9990]
        /\ balances'[o][t] = a
        /\ getEffectiveBalanceAt(balances', operatorData', now', o, t) = a

C7_AwardValidation ==
    [][(TxStep("awardTokens") /\ call'.caller = Owner) =>
         LET invalid == call'.tokenId \notin TokenIds \/ call'.amount = 0
         IN  /\ invalid => /\ status' \in {InvalidTokenId, InvalidAmount}
                           /\ LedgerUnchanged
                           /\ logs' = <<>>
             /\ (~invalid /\ ~AddOverflows(totalSupply(balances, call'.tokenId),
                                           call'.amount))
                  => status' = OK]_vars

\* C8: setDecayRate called by the owner with a rate above 10000 fails with
\* the invalid-rate error and changes nothing; every rate in 0..10000 is
\* accepted.
C8_RateValidation ==
    [][(TxStep("setDecayRate") /\ call'.caller = Owner) =>
         IF call'.rate > 10000
         THEN status' = InvalidRate /\ LedgerUnchanged /\ logs' = <<>>
         ELSE status' = OK]_vars

\* C9: awardTokens, setDecayRate and setURI called by anyone but the owner
\* fail with the not-owner error whatever their arguments, change no
\* balance, no profile and no URI, and emit no event.
C9_OnlyOwner ==
    [][(txCount' = txCount + 1 /\ call'.caller # Owner) =>
         /\ call'.op \in {"awardTokens", "setDecayRate", "setURI"}
         /\ status' = NotOwner
         /\ LedgerUnchanged
         /\ logs' = <<>>]_vars

\* a stranger's otherwise valid award, rejected on a ledger that holds tokens
C9_Witness ==
    /\ call.op = "awardTokens"
    /\ call.caller # Owner
    /\ call.tokenId \in TokenIds
    /\ call.amount > 0
    /\ status = NotOwner
    /\ balances[call.operator][call.tokenId] > 0

ReadOps == {"getEffectiveBalance", "balanceOf", "getOperatorData"}

\* C10: a read changes no raw balance, no profile and no URI, and a
\* getEffectiveBalance call repeated at the same timestamp right after
\* another one with the same arguments returns the same value.
C10_ReadsArePure ==
    [][(txCount' = txCount /\ now' = now) =>
         /\ call'.op \in ReadOps
         /\ LedgerUnchanged
         /\ (call.op = "getEffectiveBalance" /\ call' = call) =>
                (ret' = ret /\ status' = status)]_vars

\* a query that saw one day of pending decay and left the raw balance alone
C10_Witness ==
    /\ call.op = "getEffectiveBalance"
    /\ status = OK
    /\ ret = <<900>>
    /\ balances[call.operator][call.tokenId] = 1000
    /\ now - operatorData[call.operator].lastUpdate >= ONE_DAY

\* C11: for an account without a decay profile getEffectiveBalance returns
\* the raw balance of every token type, also when the balance arrived by
\* an inherited ERC-1155 transfer.
C11_NoProfileEffectiveIsRaw ==
    \A o \in Operators, t \in TokenIds :
        ~HasProfile(o) => getEffectiveBalance(o, t) = balanceOf(balances, o, t)

\* whole days between the account's last update and the query time
DaysAt(o, time) == (time - operatorData[o].lastUpdate) \div ONE_DAY

\* C12 as stated: for a positive raw balance and at least one whole elapsed
\* day the effective balance is 0 only when the compounded factor is 0.
C12_ZeroOnlyIfFactorZero ==
    \A o \in Operators, t \in TokenIds, time \in QueryTimes :
        (/\ HasProfile(o)
         /\ balanceOf(balances, o, t) > 0
         /\ DaysAt(o, time) >= 1
         /\ getEffectiveBalanceAt(balances, operatorData, time, o, t) = 0)
        => RefFactor(operatorData[o].decayRate, DaysAt(o, time)) = 0

\* C12, amended: for a positive raw balance and at least one whole elapsed
\* day the value getEffectiveBalance returns is 0 exactly when
\* raw * factor < 10000 (a factor of 0, or a raw balance too small for the
\* factor), and positive whenever raw * factor >= 10000.
C12_ZeroIffBelowScale ==
    \A o \in Operators, t \in TokenIds, time \in QueryTimes :
        LET raw == balanceOf(balances, o, t)
            e == getEffectiveBalanceAt(balances, operatorData, time, o, t)
            factor == RefFactor(operatorData[o].decayRate, DaysAt(o, time))
        IN  (HasProfile(o) /\ raw > 0 /\ DaysAt(o, time) >= 1 /\ e # NoValue) =>
                /\ e >= 0
                /\ (e = 0) <=> (factor = 0 \/ raw < (BASIS_POINTS + factor - 1) \div factor)

\* one unit at the default rate, a day after the last update: the factor
\* is 9990 and the effective balance is 0
C12_Witness ==
    \E o \in Operators, t \in TokenIds :
        /\ balanceOf(balances, o, t) = 1
        /\ operatorData[o].decayRate = DEFAULT_DECAY_RATE
        /\ DaysAt(o, now) >= 1
        /\ RefFactor(operatorData[o].decayRate, DaysAt(o, now)) # 0
        /\ getEffectiveBalance(o, t) = 0

\* C13: decay reconciliation never fails: in every reachable state, at the
\* current time, getEffectiveBalance completes for every account and token
\* type (rawBalance * decayFactor and decayFactor * decayRate do not
\* overflow the machine word), so the commit in awardTokens and
\* setDecayRate, which evaluates it first, completes too.
C13_ReconciliationNeverFails ==
    \A o \in Operators, t \in TokenIds : getEffectiveBalance(o, t) # NoValue

\* C14: for a fixed ledger state with a rate below 10000, the value
\* getEffectiveBalance returns is non-increasing in the query time: for
\* query times t1 <= t2 the value at t2 is at most the value at t1.
C14_NonIncreasingInTime ==
    \A o \in Operators, t \in TokenIds, t1 \in QueryTimes, t2 \in QueryTimes :
        LET e1 == getEffectiveBalanceAt(balances, operatorData, t1, o, t)
            e2 == getEffectiveBalanceAt(balances, operatorData, t2, o, t)
        IN  (/\ operatorData[o].decayRate < BASIS_POINTS
             /\ t1 <= t2
             /\ e1 # NoValue
             /\ e2 # NoValue) => e2 <= e1

\* decay in progress at a rate below 10000: the balance has shrunk since
\* the last update and shrinks again within the next day
C14_Witness ==
    \E o \in Operators, t \in TokenIds :
        /\ HasProfile(o)
        /\ operatorData[o].decayRate < BASIS_POINTS
        /\ DaysAt(o, now) >= 1
        /\ getEffectiveBalance(o, t) # NoValue
        /\ getEffectiveBalance(o, t) < balanceOf(balances, o, t)
        /\ getEffectiveBalanceAt(balances, operatorData, now + ONE_DAY, o, t) > 0
        /\ getEffectiveBalanceAt(balances, operatorData, now + ONE_DAY, o, t)
               < getEffectiveBalance(o, t)

\* the step is a successful awardTokens or setDecayRate on account o: the
\* two operations that commit pending decay
CommitStep(o) ==
    /\ txCount' = txCount + 1
    /\ call'.op \in {"awardTokens", "setDecayRate"}
    /\ call'.operator = o
    /\ status' = OK

\* a burn among the events of the step
BurnLogged(o) ==
    \E i \in 1 .. Len(logs') :
        /\ logs'[i].event = "TransferSingle"
        /\ logs'[i].from = o
        /\ logs'[i].to = ZeroAddress

\* C15: for an account whose decay rate is 10000 the value
\* getEffectiveBalance returns equals the raw balance for every token type
\* at every query time, and a successful awardTokens or setDecayRate on
\* the account burns nothing: no burn event, no raw balance lowered.
C15_FullRateNeverDecays ==
    /\ [](\A o \in Operators, t \in TokenIds, time \in QueryTimes :
            LET e == getEffectiveBalanceAt(balances, operatorData, time, o, t)
            IN  (/\ HasProfile(o)
                 /\ operatorData[o].decayRate = BASIS_POINTS
                 /\ e # NoValue) => e = balanceOf(balances, o, t))
    /\ [][\A o \in Operators :
            (/\ CommitStep(o)
             /\ HasProfile(o)
             /\ operatorData[o].decayRate = BASIS_POINTS)
            => /\ ~BurnLogged(o)
               /\ \A t \in TokenIds : balances'[o][t] >= balances[o][t]]_vars

\* an award to an account at rate 10000, made a day or more after its last
\* update, on top of a positive balance: mint and TokensAwarded, no burn
C15_Witness ==
    \E o \in Operators :
        /\ txCount = 1
        /\ call.op = "awardTokens"
        /\ call.operator = o
        /\ status = OK
        /\ call.at >= StartTime + ONE_DAY
        /\ operatorData[o].decayRate = BASIS_POINTS
        /\ operatorData[o].lastUpdate = call.at
        /\ balances[o][call.tokenId] > call.amount
        /\ Len(logs) = 2

\* the events of the step hold the burn of value units of type t from o
BurnLoggedOf(o, t, value) ==
    \E i \in 1 .. Len(logs') : logs'[i] = TransferSingle(o, ZeroAddress, t, value)

\* C16: for an account whose decay rate is 0, once a whole day has passed
\* since lastUpdate getEffectiveBalance returns 0 for every token type, and
\* the next successful awardTokens burns the whole previous raw balance of
\* the awarded type (the balance becomes the awarded amount) while the
\* next successful setDecayRate burns the whole raw balance of all three.
C16_ZeroRateDecaysToZero ==
    /\ [](\A o \in Operators, t \in TokenIds, time \in QueryTimes :
            (/\ HasProfile(o)
             /\ operatorData[o].decayRate = 0
             /\ DaysAt(o, time) >= 1)
            => getEffectiveBalanceAt(balances, operatorData, time, o, t) = 0)
    /\ [][\A o \in Operators :
            (/\ CommitStep(o)
             /\ HasProfile(o)
             /\ operatorData[o].decayRate = 0
             /\ DaysAt(o, now) >= 1)
            => \A t \in TokenIds :
                  /\ (call'.op = "setDecayRate") => balances'[o][t] = 0
                  /\ (call'.op = "awardTokens" /\ call'.tokenId = t)
                        => balances'[o][t] = call'.amount
                  /\ (call'.op = "awardTokens" /\ call'.tokenId # t)
                        => balances'[o][t] = balances[o][t]
                  /\ (balances[o][t] > 0
                      /\ (call'.op = "setDecayRate" \/ call'.tokenId = t))
                        => BurnLoggedOf(o, t, balances[o][t])]_vars

\* a rate change a day or more after the last update that burned the whole
\* 1000 units of each of the three token types
C16_Witness ==
    \E o \in Operators :
        /\ txCount = 1
        /\ call.op = "setDecayRate"
        /\ call.operator = o
        /\ status = OK
        /\ call.at >= StartTime + ONE_DAY
        /\ \A t \in TokenIds : balances[o][t] = 0
        /\ Len(logs) = 4
        /\ \A t \in TokenIds : logs[t + 1] = TransferSingle(o, ZeroAddress, t, 1000)

\* C17: for every account lastUpdate is never greater than the current
\* time, never decreases from one state to the next, changes only in a
\* successful awardTokens or setDecayRate on that account, and after such
\* a step equals the current time.
C17_LastUpdateMonotonic ==
    /\ [](\A o \in Operators : operatorData[o].lastUpdate <= now)
    /\ [][\A o \in Operators :
            /\ operatorData'[o].lastUpdate >= operatorData[o].lastUpdate
            /\ (operatorData'[o].lastUpdate # operatorData[o].lastUpdate)
                   => CommitStep(o)
            /\ CommitStep(o) => operatorData'[o].lastUpdate = now]_vars

\* a profile created in the deployment block and stamped again a day
\* later by a second award of the same type: 999 left of the first 1000
C17_Witness ==
    \E o \in Operators, t \in TokenIds :
        /\ call.op = "awardTokens"
        /\ call.operator = o
        /\ call.tokenId = t
        /\ status = OK
        /\ balances[o][t] = 1999
        /\ operatorData[o].lastUpdate = StartTime + ONE_DAY
        /\ operatorData[o].lastUpdate = call.at

\* C18: immediately after a successful awardTokens or setDecayRate on an
\* account, getEffectiveBalance returns the raw balance for every token
\* type of that account; and a successful setDecayRate with the stored
\* rate, sent at the timestamp of the account's last update, emits only
\* DecayRateUpdated and leaves every raw balance, the rate and lastUpdate
\* unchanged.
C18_ReconciliationIdempotent ==
    [][\A o \in Operators :
         /\ CommitStep(o) =>
               \A t \in TokenIds :
                  getEffectiveBalanceAt(balances', operatorData', now', o, t)
                     = balances'[o][t]
         /\ (/\ CommitStep(o)
             /\ call'.op = "setDecayRate"
             /\ HasProfile(o)
             /\ operatorData[o].lastUpdate = now
             /\ operatorData[o].decayRate = call'.rate)
            => /\ balances' = balances
               /\ operatorData' = operatorData
               /\ logs' = <<DecayRateUpdated(o, call'.rate)>>]_vars

\* the rate 9000 set again in the block in which a commit had cut the three
\* balances from 1000 to 900: nothing more is burned
C18_Witness ==
    \E o \in Operators :
        /\ txCount = 2
        /\ call.op = "setDecayRate"
        /\ call.operator = o
        /\ call.rate = 9000
        /\ status = OK
        /\ call.at = StartTime + ONE_DAY
        /\ operatorData[o] = [lastUpdate |-> call.at, decayRate |-> 9000]
        /\ \A t \in TokenIds : balances[o][t] = 900
        /\ logs = <<DecayRateUpdated(o, 9000)>>

\* C19 as stated: every successful setDecayRate emits exactly one event,
\* DecayRateUpdated(operator, newRate), whatever the operator's prior state.
C19_OnlyRateEvent ==
    [][(TxStep("setDecayRate") /\ status' = OK) =>
         logs' = <<DecayRateUpdated(call'.operator, call'.rate)>>]_vars

\* the token types of o on which decay is pending
PendingTypes(o) ==
    {t \in TokenIds : HasProfile(o) /\ getEffectiveBalance(o, t) < balances[o][t]}

\* C19, amended: every successful setDecayRate emits exactly one
\* DecayRateUpdated(operator, newRate), as its last event; before it comes
\* one TransferSingle burn event for each token type of the operator with
\* pending decay (raw minus effective balance, to the zero address) and
\* nothing else, so it is the only event when no decay is pending.
C19_RateEventLast ==
    [][(TxStep("setDecayRate") /\ status' = OK) =>
         LET o == call'.operator
             n == Len(logs')
         IN  /\ n = Cardinality(PendingTypes(o)) + 1
             /\ logs'[n] = DecayRateUpdated(o, call'.rate)
             /\ \A i \in 1 .. n - 1 :
                    /\ logs'[i].id \in PendingTypes(o)
                    /\ logs'[i] = TransferSingle(o, ZeroAddress, logs'[i].id,
                                      balances[o][logs'[i].id]
                                         - getEffectiveBalance(o, logs'[i].id))
             /\ \A t \in PendingTypes(o) : \E i \in 1 .. n - 1 : logs'[i].id = t]_vars

\* a rate change on an account with pending decay: a burn, then the
\* rate-change event
C19_Witness ==
    /\ call.op = "setDecayRate"
    /\ status = OK
    /\ Len(logs) = 2
    /\ logs[1].event = "TransferSingle"
    /\ logs[1].from = call.operator
    /\ logs[1].to = ZeroAddress
    /\ logs[2] = DecayRateUpdated(call.operator, call.rate)

\* C20: in every reachable state every account's stored decayRate is in
\* 0 .. 10000; a successful first award to an account stores 9990, a
\* successful setDecayRate stores its argument, and no other step changes
\* the stored rate.
C20_DecayRateInRange ==
    /\ [](\A o \in Operators : operatorData[o].decayRate \in 0 .. 10000)
    /\ [][\A o \in Operators :
            IF CommitStep(o) /\ call'.op = "setDecayRate"
            THEN operatorData'[o].decayRate = call'.rate
            ELSE IF CommitStep(o) /\ ~HasProfile(o)
            THEN operatorData'[o].decayRate = 9990
            ELSE operatorData'[o].decayRate = operatorData[o].decayRate]_vars

\* one profile created by a first award, another by setDecayRate with the
\* largest rate it accepts
C20_Witness ==
    \E o1 \in Operators, o2 \in Operators :
        /\ HasProfile(o1)
        /\ operatorData[o1].decayRate = 9990
        /\ \E t \in TokenIds : balances[o1][t] > 0
        /\ HasProfile(o2)
        /\ operatorData[o2].decayRate = 10000

(* ------------------------ properties of EnergyLog ---------------------- *)

\* C21: a createEnergyLog with pueValue 0 or with the zero node id fails;
\* a failed createEnergyLog leaves the stored logs, the id list (so
\* getTotalLogs) and every node's latest log unchanged; a successful one
\* returns an id under which the log with the given pueValue, nodeId and
\* zkProof, timestamp = now and verified = false is stored, and the id
\* list has grown by exactly that id.
C21_CreateEnergyLog ==
    [][TxStep("createEnergyLog") =>
         /\ (call'.pueValue = 0 \/ call'.nodeId = ZeroBytes32) => status' # OK
         /\ status' # OK => UNCHANGED energyLogVars
         /\ status' = OK =>
               /\ energyLogAt(energyLogs', ret'[1]) =
                     [timestamp |-> now, pueValue |-> call'.pueValue,
                      nodeId |-> call'.nodeId, zkProof |-> call'.zkProof,
                      verified |-> FALSE]
               /\ now > 0
               /\ energyLogIds' = Append(energyLogIds, ret'[1])
               /\ \A id \in DOMAIN energyLogs : energyLogs'[id] = energyLogs[id]]_vars

\* a second log created after a first, retrievable under the returned id
C21_Witness ==
    /\ call.op = "createEnergyLog"
    /\ status = OK
    /\ Len(energyLogIds) = 2
    /\ getEnergyLog(ret[1]).status = OK
    /\ getEnergyLog(ret[1]).ret[1].pueValue = call.pueValue
    /\ getTotalLogs.ret[1] = 2

\* positions in the id list of the logs created for node n
CreatedFor(n) ==
    {i \in 1 .. Len(energyLogIds) : energyLogs[energyLogIds[i]].nodeId = n}

Max(S) == CHOOSE x \in S : \A y \in S : y <= x

\* C22: in every reachable state getLatestNodeLog(n) fails with 'No logs
\* for this node' exactly when no log was created for n, and otherwise
\* returns the stored log (with its current verified flag) of the last id
\* created for n, whose nodeId field is n; a successful createEnergyLog
\* makes the id it returns the latest of its node.
C22_LatestNodeLog ==
    /\ [](\A n \in NodeIdInputs :
            IF CreatedFor(n) = {}
            THEN getLatestNodeLog(n) = [status |-> NoLogsForNode, ret |-> <<>>]
            ELSE /\ getLatestNodeLog(n).status = OK
                 /\ getLatestNodeLog(n).ret[1] =
                       energyLogs[energyLogIds[Max(CreatedFor(n))]]
                 /\ getLatestNodeLog(n).ret[1].nodeId = n)
    /\ [][(TxStep("createEnergyLog") /\ status' = OK) =>
            latestNodeLogAt(latestNodeLogs', call'.nodeId) = ret'[1]]_vars

\* two logs of one node, the later one verified since: it is the latest,
\* the other node still has none
C22_Witness ==
    \E n \in Nodes, m \in Nodes :
        /\ Cardinality(CreatedFor(n)) = 2
        /\ getLatestNodeLog(n).status = OK
        /\ getLatestNodeLog(n).ret[1] = energyLogs[energyLogIds[2]]
        /\ getLatestNodeLog(n).ret[1] # energyLogs[energyLogIds[1]]
        /\ getLatestNodeLog(n).ret[1].verified
        /\ getLatestNodeLog(m).status = NoLogsForNode

\* C23: verifyEnergyLog fails with 'Log does not exist' for an id never
\* created and with 'Log already verified' for a log whose verified flag
\* is true; on an unverified log with non-empty verification data it
\* succeeds and sets verified to true; a verified flag that is true stays
\* true in every later state; and an EnergyLogVerified event with
\* verified = true is emitted only by a step that turns the flag of that
\* log from false to true, hence at most once per log.
C23_VerifyEnergyLog ==
    [][/\ \A id \in DOMAIN energyLogs :
            energyLogs[id].verified =>
               (id \in DOMAIN energyLogs' /\ energyLogs'[id].verified)
       /\ TxStep("verifyEnergyLog") =>
            LET id == call'.logId
            IN  /\ id \notin DOMAIN energyLogs => status' = LogDoesNotExist
                /\ (id \in DOMAIN energyLogs /\ energyLogs[id].verified)
                      => status' = LogAlreadyVerified
                /\ (/\ id \in DOMAIN energyLogs
                    /\ ~energyLogs[id].verified
                    /\ Len(call'.verificationData) > 0)
                      => (status' = OK /\ energyLogs'[id].verified)
                /\ \A i \in 1 .. Len(logs') :
                      (logs'[i].event = "EnergyLogVerified" /\ logs'[i].verified)
                      => /\ logs'[i].logId = id
                         /\ ~energyLogs[id].verified
                         /\ energyLogs'[id].verified]_vars

\* a verified log whose second verification was rejected
C23_Witness ==
    /\ call.op = "verifyEnergyLog"
    /\ status = LogAlreadyVerified
    /\ call.logId \in DOMAIN energyLogs
    /\ energyLogs[call.logId].verified
    /\ logs = <<>>

\* C24: in every reachable state, for every start and count,
\* getEnergyLogBatch(start, count) fails when start >= getTotalLogs() and
\* otherwise returns exactly min(count, total - start) logs: the stored
\* logs at positions start, start + 1, ... of the creation order.
C24_BatchIsClamped ==
    \A s \in StartInputs, c \in CountInputs :
        LET total == Len(energyLogIds)
            r == getEnergyLogBatch(s, c)
            n == IF c < total - s THEN c ELSE total - s
        IN  IF s >= total THEN r.status # OK
            ELSE /\ r.status = OK
                 /\ Len(r.ret[1]) = n
                 /\ \A i \in 1 .. n : r.ret[1][i] = energyLogs[energyLogIds[s + i]]

(* --------------------- properties of WorkloadOracle -------------------- *)

\* C25: redistributionThreshold and slaVarianceThreshold are 15 and 5
\* before any transaction and within 1 .. 100 in every reachable state;
\* updateRedistributionThreshold and updateSlaVarianceThreshold succeed
\* exactly for the owner with a value in 1 .. 100, then store the value in
\* their threshold, leave the other one and emit the single event
\* ThresholdUpdated; otherwise they fail, leaving both thresholds; no
\* other step changes a threshold.
C25_Thresholds ==
    /\ [](/\ redistributionThreshold \in 1 .. 100
          /\ slaVarianceThreshold \in 1 .. 100
          /\ txCount = 0 => (redistributionThreshold = 15 /\ slaVarianceThreshold = 5))
    /\ [][IF TxStep("updateRedistributionThreshold")
          THEN IF call'.caller = Owner /\ call'.newThreshold \in 1 .. 100
               THEN /\ status' = OK
                    /\ redistributionThreshold' = call'.newThreshold
                    /\ slaVarianceThreshold' = slaVarianceThreshold
                    /\ logs' = <<ThresholdUpdated("redistribution", call'.newThreshold)>>
               ELSE /\ status' # OK
                    /\ UNCHANGED <<redistributionThreshold, slaVarianceThreshold>>
          ELSE IF TxStep("updateSlaVarianceThreshold")
          THEN IF call'.caller = Owner /\ call'.newThreshold \in 1 .. 100
               THEN /\ status' = OK
                    /\ slaVarianceThreshold' = call'.newThreshold
                    /\ redistributionThreshold' = redistributionThreshold
                    /\ logs' = <<ThresholdUpdated("slaVariance", call'.newThreshold)>>
               ELSE /\ status' # OK
                    /\ UNCHANGED <<redistributionThreshold, slaVarianceThreshold>>
          ELSE UNCHANGED <<redistributionThreshold, slaVarianceThreshold>>]_vars

\* both thresholds moved to the ends of the range
C25_Witness ==
    /\ redistributionThreshold = 100
    /\ slaVarianceThreshold = 1
    /\ call.op \in {"updateRedistributionThreshold", "updateSlaVarianceThreshold"}
    /\ status = OK


\* the two quantities checkAndTriggerRedistribution compares, as the claim
\* states them
CoolingEfficiencyOf(w) == (w.coolingLoad * 100) \div w.computeLoad

SlaHeadroomOf(w) ==
    IF w.slaThreshold > w.computeLoad
    THEN ((w.slaThreshold - w.computeLoad) * 100) \div w.slaThreshold
    ELSE 0

\* C26: checkAndTriggerRedistribution(nodeId) fails with "Node data not
\* available" and changes nothing when no workload was ever stored for
\* nodeId; for a node with data it succeeds, and it returns true, sets
\* redistributionTriggered and emits RedistributionTriggered exactly when
\* floor(coolingLoad*100/computeLoad) > redistributionThreshold and the
\* SLA headroom > slaVarianceThreshold; otherwise it returns false and
\* leaves the node's data.
C26_CheckAndTrigger ==
    [][TxStep("checkAndTriggerRedistribution") =>
         LET n == call'.nodeId
             w == nodeWorkloadAt(nodeWorkloads, n)
         IN  IF n \notin DOMAIN nodeWorkloads
             THEN /\ status' = NodeDataNotAvailable
                  /\ logs' = <<>>
                  /\ UNCHANGED <<oracleVars, energyLogVars, ledger>>
             ELSE /\ status' = OK
                  /\ UNCHANGED <<nodeIds, redistributionThreshold,
                                 slaVarianceThreshold, pendingRequests>>
                  /\ IF /\ CoolingEfficiencyOf(w) > redistributionThreshold
                        /\ SlaHeadroomOf(w) > slaVarianceThreshold
                     THEN /\ ret' = <<TRUE>>
                          /\ nodeWorkloads' =
                                 [nodeWorkloads EXCEPT ![n].redistributionTriggered = TRUE]
                          /\ logs' = <<RedistributionTriggered(n, w.coolingLoad, now)>>
                     ELSE /\ ret' = <<FALSE>>
                          /\ nodeWorkloads' = nodeWorkloads
                          /\ logs' = <<>>]_vars

\* a check that triggers after the thresholds were lowered: the callback
\* stored the data without triggering, the check sets the flag
C26_Witness ==
    /\ call.op = "checkAndTriggerRedistribution"
    /\ status = OK
    /\ ret = <<TRUE>>
    /\ \E n \in DOMAIN nodeWorkloads :
          /\ call.nodeId = n
          /\ nodeWorkloads[n].redistributionTriggered
          /\ CoolingEfficiencyOf(nodeWorkloads[n]) = 15
    /\ redistributionThreshold = 1

\* C29: every stored workload has computeLoad > 0 and no node id occurs
\* twice in nodeIds; a fulfillWorkloadData callback reporting computeLoad
\* = 0 fails and leaves nodeWorkloads and nodeIds; nodeIds changes only
\* by a successful callback for a node without stored data, which appends
\* that node's id.
C29_StoredWorkloads ==
    /\ [](/\ \A n \in DOMAIN nodeWorkloads : nodeWorkloads[n].computeLoad > 0
          /\ \A i, j \in 1 .. Len(nodeIds) : nodeIds[i] = nodeIds[j] => i = j)
    /\ [][/\ (TxStep("fulfillWorkloadData") /\ call'.computeLoad = 0) =>
                (status' # OK /\ UNCHANGED <<nodeWorkloads, nodeIds>>)
          /\ nodeIds' # nodeIds =>
                /\ TxStep("fulfillWorkloadData")
                /\ status' = OK
                /\ call'.nodeId \notin DOMAIN nodeWorkloads
                /\ nodeIds' = Append(nodeIds, call'.nodeId)
          /\ (TxStep("fulfillWorkloadData") /\ status' = OK
                 /\ call'.nodeId \in DOMAIN nodeWorkloads) =>
                nodeIds' = nodeIds]_vars

\* the authorised callback with computeLoad = 0 was rejected by the division
C29_Witness ==
    /\ call.op = "fulfillWorkloadData"
    /\ call.caller = ChainlinkOracle
    /\ call.computeLoad = 0
    /\ status = PanicDiv
    /\ call.requestId \in pendingRequests


(* ------------------ the discarded fraction of a day ------------------- *)

C28_FactorReachesZero ==
    /\ []((decayRun.pc # "idle" /\ decayRun.decayRate < BASIS_POINTS) =>
            /\ decayRun.daysSinceUpdate >= BASIS_POINTS => decayRun.pc # "reverted"
            /\ (decayRun.pc = "loop" /\ decayRun.i >= decayRun.decayRate + 1)
                   => decayRun.decayFactor = 0
            /\ (decayRun.pc = "returned" /\ decayRun.daysSinceUpdate >= BASIS_POINTS)
                   => decayRun.effectiveBalance = 0
            /\ (decayRun.pc = "applied" /\ decayRun.daysSinceUpdate >= BASIS_POINTS)
                   => (decayRun.effectiveBalance = 0 /\ decayRun.rawBalance = 0))
    /\ [][(/\ decayRun.pc = "loop"
           /\ decayRun'.pc = "loop"
           /\ decayRun'.i = decayRun.i + 1
           /\ decayRun.decayRate < BASIS_POINTS
           /\ decayRun.decayFactor > 0)
              => decayRun'.decayFactor <= decayRun.decayFactor - 1]_vars

\* the slowest decay there is: at rate 9999 the factor is still 1 after
\* 9999 days, and the balance of the largest amount is gone after 10000
C28_Witness ==
    /\ decayRun.pc = "applied"
    /\ decayRun.decayRate = BASIS_POINTS - 1
    /\ decayRun.daysSinceUpdate = BASIS_POINTS
    /\ decayRun.i = BASIS_POINTS
    /\ decayRun.decayFactor = 0
    /\ decayRun.rawBalance = 0


(* ----------------------- properties of Web3Provider -------------------- *)

\* C30: whenever isConnected is false, account, web3, provider and
\* networkId are all null.
C30_DisconnectedIsNull ==
    ~isConnected =>
        (account = Null /\ web3 = Null /\ provider = Null /\ networkId = Null)

====
